---- MODULE Spec2Model ----
(***************************************************************************)
(* Configuration resolution of dprint-plugin-typescript: resolve_config    *)
(* (src/src/configuration/resolve_config.rs) as a state machine whose      *)
(* actions are the successive blocks of the function body.                 *)
(***************************************************************************)
EXTENDS Integers, Sequences, FiniteSets, TLC

(* ---------------- ConfigKeyValue, Option ---------------- *)
Bool(b) == [kind |-> "Bool", val |-> b]
Number(n) == [kind |-> "Number", val |-> n]
String(s) == [kind |-> "String", val |-> s]

None == <<>>
Some(v) == <<v>>
unwrap_or(o, d) == IF o = None THEN d ELSE o[1]

(* ---------------- option types and their FromStr ---------------- *)
\* enum type |-> (configuration text |-> variant)
EnumTypes ==
  [ SemiColons |-> ("always" :> "Always" @@ "prefer" :> "Prefer" @@ "asi" :> "Asi"),
    BracePosition |-> ("maintain" :> "Maintain" @@ "sameLine" :> "SameLine" @@ "nextLine" :> "NextLine"
                       @@ "sameLineUnlessHanging" :> "SameLineUnlessHanging"),
    NextControlFlowPosition |-> ("maintain" :> "Maintain" @@ "sameLine" :> "SameLine" @@ "nextLine" :> "NextLine"),
    OperatorPosition |-> ("maintain" :> "Maintain" @@ "sameLine" :> "SameLine" @@ "nextLine" :> "NextLine"),
    SameOrNextLinePosition |-> ("maintain" :> "Maintain" @@ "sameLine" :> "SameLine" @@ "nextLine" :> "NextLine"),
    TrailingCommas |-> ("never" :> "Never" @@ "always" :> "Always" @@ "onlyMultiLine" :> "OnlyMultiLine"),
    UseBraces |-> ("maintain" :> "Maintain" @@ "whenNotSingleLine" :> "WhenNotSingleLine" @@ "always" :> "Always"
                   @@ "preferNone" :> "PreferNone"),
    PreferHanging |-> ("never" :> "Never" @@ "onlySingleItem" :> "OnlySingleItem" @@ "always" :> "Always"),
    SemiColonOrComma |-> ("semiColon" :> "SemiColon" @@ "comma" :> "Comma"),
    QuoteStyle |-> ("alwaysDouble" :> "AlwaysDouble" @@ "alwaysSingle" :> "AlwaysSingle"
                    @@ "preferDouble" :> "PreferDouble" @@ "preferSingle" :> "PreferSingle"),
    QuoteProps |-> ("preserve" :> "Preserve" @@ "asNeeded" :> "AsNeeded"),
    JsxQuoteStyle |-> ("preferDouble" :> "PreferDouble" @@ "preferSingle" :> "PreferSingle"),
    JsxMultiLineParens |-> ("never" :> "Never" @@ "prefer" :> "Prefer" @@ "always" :> "Always"),
    UseParentheses |-> ("maintain" :> "Maintain" @@ "force" :> "Force" @@ "preferNone" :> "PreferNone"),
    SortOrder |-> ("maintain" :> "Maintain" @@ "caseSensitive" :> "CaseSensitive"
                   @@ "caseInsensitive" :> "CaseInsensitive"),
    NamedTypeImportsExportsOrder |-> ("first" :> "First" @@ "last" :> "Last" @@ "none" :> "None"),
    MemberSpacing |-> ("maintain" :> "Maintain" @@ "newLine" :> "NewLine" @@ "blankLine" :> "BlankLine"),
    ForceMultiLine |-> ("never" :> "Never" @@ "always" :> "Always" @@ "whenMultiple" :> "WhenMultiple"),
    NewLineKind |-> ("auto" :> "Auto" @@ "lf" :> "LineFeed" @@ "crlf" :> "CarriageReturnLineFeed"
                     @@ "system" :> "System") ]

\* largest value an unsigned integer option type takes from a Number(i32)
IntMax == [u32 |-> 2147483647, u8 |-> 255]

\* T::from_str on the value of a ConfigKeyValue: Some(parsed) or None
parse(ty, raw) ==
  CASE ty = "bool" -> IF raw.kind = "Bool" THEN Some(raw.val) ELSE None
    [] ty = "String" -> IF raw.kind = "String" THEN Some(raw.val) ELSE None
    [] ty \in DOMAIN IntMax ->
         IF raw.kind = "Number" /\ raw.val >= 0 /\ raw.val <= IntMax[ty] THEN Some(raw.val) ELSE None
    [] OTHER ->
         IF raw.kind = "String" /\ raw.val \in DOMAIN EnumTypes[ty] THEN Some(EnumTypes[ty][raw.val]) ELSE None

\* the values of a resolved field of type ty
TypeValues(ty) ==
  CASE ty = "bool" -> BOOLEAN
    [] ty = "String" -> STRING
    [] ty \in DOMAIN IntMax -> 0 .. IntMax[ty]
    [] OTHER -> {EnumTypes[ty][s] : s \in DOMAIN EnumTypes[ty]}

\* QuoteStyle::to_jsx_quote_style
to_jsx_quote_style(q) == IF q \in {"AlwaysDouble", "PreferDouble"} THEN "PreferDouble" ELSE "PreferSingle"

(* ---------------- diagnostics ---------------- *)
ParseErrorMessage == "parse error"
RenamedMessage(new_key) == "The configuration key was renamed to '" \o new_key \o "'"
UnknownMessage == "Unknown property in configuration"
ConfigurationDiagnostic(key, message) == [property_name |-> key, message |-> message]

(* ---------------- dprint_core configuration helpers ---------------- *)
\* get_nullable_value: consume the key; Some(parsed), or None with a
\* diagnostic when the value does not parse, or None when the key is absent
get_nullable_value(config, key, ty, diagnostics) ==
  IF key \in DOMAIN config
    THEN LET parsed == parse(ty, config[key])
             rest == [k \in DOMAIN config \ {key} |-> config[k]]
         IN IF parsed # None
              THEN [value |-> parsed, config |-> rest, diagnostics |-> diagnostics]
              ELSE [value |-> None, config |-> rest,
                    diagnostics |-> Append(diagnostics, ConfigurationDiagnostic(key, ParseErrorMessage))]
    ELSE [value |-> None, config |-> config, diagnostics |-> diagnostics]

get_value(config, key, ty, default, diagnostics) ==
  [get_nullable_value(config, key, ty, diagnostics) EXCEPT !.value = unwrap_or(@, default)]

handle_renamed_config_property(config, old_key, new_key, diagnostics) ==
  IF old_key \in DOMAIN config
    THEN LET raw == config[old_key]
             rest == [k \in DOMAIN config \ {old_key} |-> config[k]]
         IN [config |-> IF new_key \in DOMAIN rest THEN rest ELSE (new_key :> raw) @@ rest,
             diagnostics |-> Append(diagnostics, ConfigurationDiagnostic(old_key, RenamedMessage(new_key)))]
    ELSE [config |-> config, diagnostics |-> diagnostics]

\* the sequences that list every element of the set s once
Orderings(s) == {o \in [1 .. Cardinality(s) -> s] : \A e \in s : \E i \in DOMAIN o : o[i] = e}

\* the order in which the map iterates the entries left in it: the entries of
\* the caller's map in the caller's order, then the entries inserted since
IterationOrder(config, iteration) ==
  SelectSeq(iteration, LAMBDA k : k \in DOMAIN config)
    \o (CHOOSE o \in Orderings(DOMAIN config \ {iteration[i] : i \in DOMAIN iteration}) : TRUE)

\* get_unknown_property_diagnostics: one diagnostic per remaining entry, in
\* the map's iteration order `order`
get_unknown_property_diagnostics(config, order) ==
  [i \in DOMAIN order |-> ConfigurationDiagnostic(order[i], UnknownMessage)]

(* ---------------- GlobalConfiguration ---------------- *)
RECOMMENDED_GLOBAL_CONFIGURATION ==
  [line_width |-> 120, use_tabs |-> FALSE, indent_width |-> 2, new_line_kind |-> "LineFeed"]

(* ---------------- the option schema of resolve_config ---------------- *)
Categories ==
  <<
    [var |-> "semi_colons", key |-> "semiColons", ty |-> "SemiColons", op |-> "get_value", dflt |-> "Prefer"],
    [var |-> "brace_position", key |-> "bracePosition", ty |-> "BracePosition", op |-> "get_value", dflt |-> "SameLineUnlessHanging"],
    [var |-> "next_control_flow_position", key |-> "nextControlFlowPosition", ty |-> "NextControlFlowPosition", op |-> "get_value", dflt |-> "SameLine"],
    [var |-> "operator_position", key |-> "operatorPosition", ty |-> "OperatorPosition", op |-> "get_value", dflt |-> "NextLine"],
    [var |-> "single_body_position", key |-> "singleBodyPosition", ty |-> "SameOrNextLinePosition", op |-> "get_value", dflt |-> "Maintain"],
    [var |-> "trailing_commas", key |-> "trailingCommas", ty |-> "TrailingCommas", op |-> "get_value", dflt |-> "OnlyMultiLine"],
    [var |-> "use_braces", key |-> "useBraces", ty |-> "UseBraces", op |-> "get_value", dflt |-> "WhenNotSingleLine"],
    [var |-> "prefer_hanging", key |-> "preferHanging", ty |-> "bool", op |-> "get_value", dflt |-> FALSE],
    [var |-> "prefer_single_line_nullable", key |-> "preferSingleLine", ty |-> "bool", op |-> "get_nullable_value"],
    [var |-> "space_surrounding_properties", key |-> "spaceSurroundingProperties", ty |-> "bool", op |-> "get_value", dflt |-> TRUE],
    [var |-> "type_literal_separator_kind", key |-> "typeLiteral.separatorKind", ty |-> "SemiColonOrComma", op |-> "get_value", dflt |-> "SemiColon"],
    [var |-> "quote_style", key |-> "quoteStyle", ty |-> "QuoteStyle", op |-> "get_value", dflt |-> "AlwaysDouble"],
    [var |-> "quote_props", key |-> "quoteProps", ty |-> "QuoteProps", op |-> "get_value", dflt |-> "Preserve"],
    [var |-> "space_around", key |-> "spaceAround", ty |-> "bool", op |-> "get_value", dflt |-> FALSE],
    [var |-> "jsx_bracket_position", key |-> "jsx.bracketPosition", ty |-> "SameOrNextLinePosition", op |-> "get_value", dflt |-> "NextLine"]
  >>
Fields ==
  <<
    [field |-> "line_width", op |-> "get_value", key |-> "lineWidth", ty |-> "u32", dflt |-> <<"global", "line_width">>],
    [field |-> "use_tabs", op |-> "get_value", key |-> "useTabs", ty |-> "bool", dflt |-> <<"global", "use_tabs">>],
    [field |-> "indent_width", op |-> "get_value", key |-> "indentWidth", ty |-> "u8", dflt |-> <<"global", "indent_width">>],
    [field |-> "new_line_kind", op |-> "get_value", key |-> "newLineKind", ty |-> "NewLineKind", dflt |-> <<"global", "new_line_kind">>],
    [field |-> "quote_style", op |-> "copy", key |-> "", ty |-> "QuoteStyle", dflt |-> <<"local", "quote_style">>],
    [field |-> "quote_props", op |-> "copy", key |-> "", ty |-> "QuoteProps", dflt |-> <<"local", "quote_props">>],
    [field |-> "semi_colons", op |-> "copy", key |-> "", ty |-> "SemiColons", dflt |-> <<"local", "semi_colons">>],
    [field |-> "file_indent_level", op |-> "get_value", key |-> "fileIndentLevel", ty |-> "u32", dflt |-> <<"const", 0>>],
    [field |-> "arrow_function_use_parentheses", op |-> "get_value", key |-> "arrowFunction.useParentheses", ty |-> "UseParentheses", dflt |-> <<"const", "Maintain">>],
    [field |-> "binary_expression_line_per_expression", op |-> "get_value", key |-> "binaryExpression.linePerExpression", ty |-> "bool", dflt |-> <<"const", FALSE>>],
    [field |-> "conditional_expression_line_per_expression", op |-> "get_value", key |-> "conditionalExpression.linePerExpression", ty |-> "bool", dflt |-> <<"const", TRUE>>],
    [field |-> "jsx_quote_style", op |-> "get_value", key |-> "jsx.quoteStyle", ty |-> "JsxQuoteStyle", dflt |-> <<"to_jsx_quote_style", "quote_style">>],
    [field |-> "jsx_multi_line_parens", op |-> "get_value", key |-> "jsx.multiLineParens", ty |-> "JsxMultiLineParens", dflt |-> <<"const", "Prefer">>],
    [field |-> "jsx_force_new_lines_surrounding_content", op |-> "get_value", key |-> "jsx.forceNewLinesSurroundingContent", ty |-> "bool", dflt |-> <<"const", FALSE>>],
    [field |-> "jsx_opening_element_bracket_position", op |-> "get_value", key |-> "jsxOpeningElement.bracketPosition", ty |-> "SameOrNextLinePosition", dflt |-> <<"local", "jsx_bracket_position">>],
    [field |-> "jsx_self_closing_element_bracket_position", op |-> "get_value", key |-> "jsxSelfClosingElement.bracketPosition", ty |-> "SameOrNextLinePosition", dflt |-> <<"local", "jsx_bracket_position">>],
    [field |-> "member_expression_line_per_expression", op |-> "get_value", key |-> "memberExpression.linePerExpression", ty |-> "bool", dflt |-> <<"const", FALSE>>],
    [field |-> "type_literal_separator_kind_single_line", op |-> "get_value", key |-> "typeLiteral.separatorKind.singleLine", ty |-> "SemiColonOrComma", dflt |-> <<"local", "type_literal_separator_kind">>],
    [field |-> "type_literal_separator_kind_multi_line", op |-> "get_value", key |-> "typeLiteral.separatorKind.multiLine", ty |-> "SemiColonOrComma", dflt |-> <<"local", "type_literal_separator_kind">>],
    [field |-> "module_sort_import_declarations", op |-> "get_value", key |-> "module.sortImportDeclarations", ty |-> "SortOrder", dflt |-> <<"const", "CaseInsensitive">>],
    [field |-> "module_sort_export_declarations", op |-> "get_value", key |-> "module.sortExportDeclarations", ty |-> "SortOrder", dflt |-> <<"const", "CaseInsensitive">>],
    [field |-> "import_declaration_sort_named_imports", op |-> "get_value", key |-> "importDeclaration.sortNamedImports", ty |-> "SortOrder", dflt |-> <<"const", "CaseInsensitive">>],
    [field |-> "export_declaration_sort_named_exports", op |-> "get_value", key |-> "exportDeclaration.sortNamedExports", ty |-> "SortOrder", dflt |-> <<"const", "CaseInsensitive">>],
    [field |-> "import_declaration_sort_type_only_imports", op |-> "get_value", key |-> "importDeclaration.sortTypeOnlyImports", ty |-> "NamedTypeImportsExportsOrder", dflt |-> <<"const", "None">>],
    [field |-> "export_declaration_sort_type_only_exports", op |-> "get_value", key |-> "exportDeclaration.sortTypeOnlyExports", ty |-> "NamedTypeImportsExportsOrder", dflt |-> <<"const", "None">>],
    [field |-> "ignore_node_comment_text", op |-> "get_value", key |-> "ignoreNodeCommentText", ty |-> "String", dflt |-> <<"const", "dprint-ignore">>],
    [field |-> "ignore_file_comment_text", op |-> "get_value", key |-> "ignoreFileCommentText", ty |-> "String", dflt |-> <<"const", "dprint-ignore-file">>],
    [field |-> "arrow_function_brace_position", op |-> "get_value", key |-> "arrowFunction.bracePosition", ty |-> "BracePosition", dflt |-> <<"local", "brace_position">>],
    [field |-> "class_declaration_brace_position", op |-> "get_value", key |-> "classDeclaration.bracePosition", ty |-> "BracePosition", dflt |-> <<"local", "brace_position">>],
    [field |-> "class_expression_brace_position", op |-> "get_value", key |-> "classExpression.bracePosition", ty |-> "BracePosition", dflt |-> <<"local", "brace_position">>],
    [field |-> "constructor_brace_position", op |-> "get_value", key |-> "constructor.bracePosition", ty |-> "BracePosition", dflt |-> <<"local", "brace_position">>],
    [field |-> "do_while_statement_brace_position", op |-> "get_value", key |-> "doWhileStatement.bracePosition", ty |-> "BracePosition", dflt |-> <<"local", "brace_position">>],
    [field |-> "enum_declaration_brace_position", op |-> "get_value", key |-> "enumDeclaration.bracePosition", ty |-> "BracePosition", dflt |-> <<"local", "brace_position">>],
    [field |-> "for_statement_brace_position", op |-> "get_value", key |-> "forStatement.bracePosition", ty |-> "BracePosition", dflt |-> <<"local", "brace_position">>],
    [field |-> "for_in_statement_brace_position", op |-> "get_value", key |-> "forInStatement.bracePosition", ty |-> "BracePosition", dflt |-> <<"local", "brace_position">>],
    [field |-> "for_of_statement_brace_position", op |-> "get_value", key |-> "forOfStatement.bracePosition", ty |-> "BracePosition", dflt |-> <<"local", "brace_position">>],
    [field |-> "get_accessor_brace_position", op |-> "get_value", key |-> "getAccessor.bracePosition", ty |-> "BracePosition", dflt |-> <<"local", "brace_position">>],
    [field |-> "if_statement_brace_position", op |-> "get_value", key |-> "ifStatement.bracePosition", ty |-> "BracePosition", dflt |-> <<"local", "brace_position">>],
    [field |-> "interface_declaration_brace_position", op |-> "get_value", key |-> "interfaceDeclaration.bracePosition", ty |-> "BracePosition", dflt |-> <<"local", "brace_position">>],
    [field |-> "function_declaration_brace_position", op |-> "get_value", key |-> "functionDeclaration.bracePosition", ty |-> "BracePosition", dflt |-> <<"local", "brace_position">>],
    [field |-> "function_expression_brace_position", op |-> "get_value", key |-> "functionExpression.bracePosition", ty |-> "BracePosition", dflt |-> <<"local", "brace_position">>],
    [field |-> "method_brace_position", op |-> "get_value", key |-> "method.bracePosition", ty |-> "BracePosition", dflt |-> <<"local", "brace_position">>],
    [field |-> "module_declaration_brace_position", op |-> "get_value", key |-> "moduleDeclaration.bracePosition", ty |-> "BracePosition", dflt |-> <<"local", "brace_position">>],
    [field |-> "set_accessor_brace_position", op |-> "get_value", key |-> "setAccessor.bracePosition", ty |-> "BracePosition", dflt |-> <<"local", "brace_position">>],
    [field |-> "static_block_brace_position", op |-> "get_value", key |-> "staticBlock.bracePosition", ty |-> "BracePosition", dflt |-> <<"local", "brace_position">>],
    [field |-> "switch_case_brace_position", op |-> "get_value", key |-> "switchCase.bracePosition", ty |-> "BracePosition", dflt |-> <<"local", "brace_position">>],
    [field |-> "switch_statement_brace_position", op |-> "get_value", key |-> "switchStatement.bracePosition", ty |-> "BracePosition", dflt |-> <<"local", "brace_position">>],
    [field |-> "try_statement_brace_position", op |-> "get_value", key |-> "tryStatement.bracePosition", ty |-> "BracePosition", dflt |-> <<"local", "brace_position">>],
    [field |-> "while_statement_brace_position", op |-> "get_value", key |-> "whileStatement.bracePosition", ty |-> "BracePosition", dflt |-> <<"local", "brace_position">>],
    [field |-> "arguments_prefer_hanging", op |-> "get_value", key |-> "arguments.preferHanging", ty |-> "PreferHanging", dflt |-> <<"local", "prefer_hanging_granular">>],
    [field |-> "array_expression_prefer_hanging", op |-> "get_value", key |-> "arrayExpression.preferHanging", ty |-> "PreferHanging", dflt |-> <<"local", "prefer_hanging_granular">>],
    [field |-> "array_pattern_prefer_hanging", op |-> "get_value", key |-> "arrayPattern.preferHanging", ty |-> "bool", dflt |-> <<"local", "prefer_hanging">>],
    [field |-> "do_while_statement_prefer_hanging", op |-> "get_value", key |-> "doWhileStatement.preferHanging", ty |-> "bool", dflt |-> <<"local", "prefer_hanging">>],
    [field |-> "export_declaration_prefer_hanging", op |-> "get_value", key |-> "exportDeclaration.preferHanging", ty |-> "bool", dflt |-> <<"local", "prefer_hanging">>],
    [field |-> "extends_clause_prefer_hanging", op |-> "get_value", key |-> "extendsClause.preferHanging", ty |-> "bool", dflt |-> <<"local", "prefer_hanging">>],
    [field |-> "for_in_statement_prefer_hanging", op |-> "get_value", key |-> "forInStatement.preferHanging", ty |-> "bool", dflt |-> <<"local", "prefer_hanging">>],
    [field |-> "for_of_statement_prefer_hanging", op |-> "get_value", key |-> "forOfStatement.preferHanging", ty |-> "bool", dflt |-> <<"local", "prefer_hanging">>],
    [field |-> "for_statement_prefer_hanging", op |-> "get_value", key |-> "forStatement.preferHanging", ty |-> "bool", dflt |-> <<"local", "prefer_hanging">>],
    [field |-> "if_statement_prefer_hanging", op |-> "get_value", key |-> "ifStatement.preferHanging", ty |-> "bool", dflt |-> <<"local", "prefer_hanging">>],
    [field |-> "implements_clause_prefer_hanging", op |-> "get_value", key |-> "implementsClause.preferHanging", ty |-> "bool", dflt |-> <<"local", "prefer_hanging">>],
    [field |-> "import_declaration_prefer_hanging", op |-> "get_value", key |-> "importDeclaration.preferHanging", ty |-> "bool", dflt |-> <<"local", "prefer_hanging">>],
    [field |-> "jsx_attributes_prefer_hanging", op |-> "get_value", key |-> "jsxAttributes.preferHanging", ty |-> "bool", dflt |-> <<"local", "prefer_hanging">>],
    [field |-> "object_expression_prefer_hanging", op |-> "get_value", key |-> "objectExpression.preferHanging", ty |-> "bool", dflt |-> <<"local", "prefer_hanging">>],
    [field |-> "object_pattern_prefer_hanging", op |-> "get_value", key |-> "objectPattern.preferHanging", ty |-> "bool", dflt |-> <<"local", "prefer_hanging">>],
    [field |-> "parameters_prefer_hanging", op |-> "get_value", key |-> "parameters.preferHanging", ty |-> "PreferHanging", dflt |-> <<"local", "prefer_hanging_granular">>],
    [field |-> "sequence_expression_prefer_hanging", op |-> "get_value", key |-> "sequenceExpression.preferHanging", ty |-> "bool", dflt |-> <<"local", "prefer_hanging">>],
    [field |-> "switch_statement_prefer_hanging", op |-> "get_value", key |-> "switchStatement.preferHanging", ty |-> "bool", dflt |-> <<"local", "prefer_hanging">>],
    [field |-> "tuple_type_prefer_hanging", op |-> "get_value", key |-> "tupleType.preferHanging", ty |-> "PreferHanging", dflt |-> <<"local", "prefer_hanging_granular">>],
    [field |-> "type_literal_prefer_hanging", op |-> "get_value", key |-> "typeLiteral.preferHanging", ty |-> "bool", dflt |-> <<"local", "prefer_hanging">>],
    [field |-> "type_parameters_prefer_hanging", op |-> "get_value", key |-> "typeParameters.preferHanging", ty |-> "PreferHanging", dflt |-> <<"local", "prefer_hanging_granular">>],
    [field |-> "union_and_intersection_type_prefer_hanging", op |-> "get_value", key |-> "unionAndIntersectionType.preferHanging", ty |-> "bool", dflt |-> <<"local", "prefer_hanging">>],
    [field |-> "variable_statement_prefer_hanging", op |-> "get_value", key |-> "variableStatement.preferHanging", ty |-> "bool", dflt |-> <<"local", "prefer_hanging">>],
    [field |-> "while_statement_prefer_hanging", op |-> "get_value", key |-> "whileStatement.preferHanging", ty |-> "bool", dflt |-> <<"local", "prefer_hanging">>],
    [field |-> "enum_declaration_member_spacing", op |-> "get_value", key |-> "enumDeclaration.memberSpacing", ty |-> "MemberSpacing", dflt |-> <<"const", "Maintain">>],
    [field |-> "if_statement_next_control_flow_position", op |-> "get_value", key |-> "ifStatement.nextControlFlowPosition", ty |-> "NextControlFlowPosition", dflt |-> <<"local", "next_control_flow_position">>],
    [field |-> "try_statement_next_control_flow_position", op |-> "get_value", key |-> "tryStatement.nextControlFlowPosition", ty |-> "NextControlFlowPosition", dflt |-> <<"local", "next_control_flow_position">>],
    [field |-> "do_while_statement_next_control_flow_position", op |-> "get_value", key |-> "doWhileStatement.nextControlFlowPosition", ty |-> "NextControlFlowPosition", dflt |-> <<"local", "next_control_flow_position">>],
    [field |-> "binary_expression_operator_position", op |-> "get_value", key |-> "binaryExpression.operatorPosition", ty |-> "OperatorPosition", dflt |-> <<"local", "operator_position">>],
    [field |-> "conditional_expression_operator_position", op |-> "get_value", key |-> "conditionalExpression.operatorPosition", ty |-> "OperatorPosition", dflt |-> <<"local", "operator_position">>],
    [field |-> "conditional_type_operator_position", op |-> "get_value", key |-> "conditionalType.operatorPosition", ty |-> "OperatorPosition", dflt |-> <<"local", "operator_position">>],
    [field |-> "if_statement_single_body_position", op |-> "get_value", key |-> "ifStatement.singleBodyPosition", ty |-> "SameOrNextLinePosition", dflt |-> <<"local", "single_body_position">>],
    [field |-> "for_statement_single_body_position", op |-> "get_value", key |-> "forStatement.singleBodyPosition", ty |-> "SameOrNextLinePosition", dflt |-> <<"local", "single_body_position">>],
    [field |-> "for_in_statement_single_body_position", op |-> "get_value", key |-> "forInStatement.singleBodyPosition", ty |-> "SameOrNextLinePosition", dflt |-> <<"local", "single_body_position">>],
    [field |-> "for_of_statement_single_body_position", op |-> "get_value", key |-> "forOfStatement.singleBodyPosition", ty |-> "SameOrNextLinePosition", dflt |-> <<"local", "single_body_position">>],
    [field |-> "while_statement_single_body_position", op |-> "get_value", key |-> "whileStatement.singleBodyPosition", ty |-> "SameOrNextLinePosition", dflt |-> <<"local", "single_body_position">>],
    [field |-> "arguments_trailing_commas", op |-> "get_value", key |-> "arguments.trailingCommas", ty |-> "TrailingCommas", dflt |-> <<"local", "trailing_commas">>],
    [field |-> "parameters_trailing_commas", op |-> "get_value", key |-> "parameters.trailingCommas", ty |-> "TrailingCommas", dflt |-> <<"local", "trailing_commas">>],
    [field |-> "array_expression_trailing_commas", op |-> "get_value", key |-> "arrayExpression.trailingCommas", ty |-> "TrailingCommas", dflt |-> <<"local", "trailing_commas">>],
    [field |-> "array_pattern_trailing_commas", op |-> "get_value", key |-> "arrayPattern.trailingCommas", ty |-> "TrailingCommas", dflt |-> <<"local", "trailing_commas">>],
    [field |-> "enum_declaration_trailing_commas", op |-> "get_value", key |-> "enumDeclaration.trailingCommas", ty |-> "TrailingCommas", dflt |-> <<"local", "trailing_commas">>],
    [field |-> "export_declaration_trailing_commas", op |-> "get_value", key |-> "exportDeclaration.trailingCommas", ty |-> "TrailingCommas", dflt |-> <<"local", "trailing_commas">>],
    [field |-> "import_declaration_trailing_commas", op |-> "get_value", key |-> "importDeclaration.trailingCommas", ty |-> "TrailingCommas", dflt |-> <<"local", "trailing_commas">>],
    [field |-> "object_expression_trailing_commas", op |-> "get_value", key |-> "objectExpression.trailingCommas", ty |-> "TrailingCommas", dflt |-> <<"local", "trailing_commas">>],
    [field |-> "object_pattern_trailing_commas", op |-> "get_value", key |-> "objectPattern.trailingCommas", ty |-> "TrailingCommas", dflt |-> <<"local", "trailing_commas">>],
    [field |-> "tuple_type_trailing_commas", op |-> "get_value", key |-> "tupleType.trailingCommas", ty |-> "TrailingCommas", dflt |-> <<"local", "trailing_commas">>],
    [field |-> "type_literal_trailing_commas", op |-> "get_value", key |-> "typeLiteral.trailingCommas", ty |-> "TrailingCommas", dflt |-> <<"local", "trailing_commas">>],
    [field |-> "type_parameters_trailing_commas", op |-> "get_value", key |-> "typeParameters.trailingCommas", ty |-> "TrailingCommas", dflt |-> <<"local", "trailing_commas">>],
    [field |-> "if_statement_use_braces", op |-> "get_value", key |-> "ifStatement.useBraces", ty |-> "UseBraces", dflt |-> <<"local", "use_braces">>],
    [field |-> "for_statement_use_braces", op |-> "get_value", key |-> "forStatement.useBraces", ty |-> "UseBraces", dflt |-> <<"local", "use_braces">>],
    [field |-> "for_in_statement_use_braces", op |-> "get_value", key |-> "forInStatement.useBraces", ty |-> "UseBraces", dflt |-> <<"local", "use_braces">>],
    [field |-> "for_of_statement_use_braces", op |-> "get_value", key |-> "forOfStatement.useBraces", ty |-> "UseBraces", dflt |-> <<"local", "use_braces">>],
    [field |-> "while_statement_use_braces", op |-> "get_value", key |-> "whileStatement.useBraces", ty |-> "UseBraces", dflt |-> <<"local", "use_braces">>],
    [field |-> "array_expression_prefer_single_line", op |-> "get_value", key |-> "arrayExpression.preferSingleLine", ty |-> "bool", dflt |-> <<"local", "prefer_single_line">>],
    [field |-> "array_pattern_prefer_single_line", op |-> "get_value", key |-> "arrayPattern.preferSingleLine", ty |-> "bool", dflt |-> <<"local", "prefer_single_line">>],
    [field |-> "arguments_prefer_single_line", op |-> "get_value", key |-> "arguments.preferSingleLine", ty |-> "bool", dflt |-> <<"local", "prefer_single_line">>],
    [field |-> "binary_expression_prefer_single_line", op |-> "get_value", key |-> "binaryExpression.preferSingleLine", ty |-> "bool", dflt |-> <<"local", "prefer_single_line">>],
    [field |-> "computed_prefer_single_line", op |-> "get_value", key |-> "computed.preferSingleLine", ty |-> "bool", dflt |-> <<"local", "prefer_single_line">>],
    [field |-> "conditional_expression_prefer_single_line", op |-> "get_value", key |-> "conditionalExpression.preferSingleLine", ty |-> "bool", dflt |-> <<"local", "prefer_single_line">>],
    [field |-> "conditional_type_prefer_single_line", op |-> "get_value", key |-> "conditionalType.preferSingleLine", ty |-> "bool", dflt |-> <<"local", "prefer_single_line">>],
    [field |-> "decorators_prefer_single_line", op |-> "get_value", key |-> "decorators.preferSingleLine", ty |-> "bool", dflt |-> <<"local", "prefer_single_line">>],
    [field |-> "export_declaration_prefer_single_line", op |-> "get_value", key |-> "exportDeclaration.preferSingleLine", ty |-> "bool", dflt |-> <<"unwrap_or_true", "prefer_single_line_nullable">>],
    [field |-> "for_statement_prefer_single_line", op |-> "get_value", key |-> "forStatement.preferSingleLine", ty |-> "bool", dflt |-> <<"local", "prefer_single_line">>],
    [field |-> "import_declaration_prefer_single_line", op |-> "get_value", key |-> "importDeclaration.preferSingleLine", ty |-> "bool", dflt |-> <<"unwrap_or_true", "prefer_single_line_nullable">>],
    [field |-> "jsx_attributes_prefer_single_line", op |-> "get_value", key |-> "jsxAttributes.preferSingleLine", ty |-> "bool", dflt |-> <<"local", "prefer_single_line">>],
    [field |-> "jsx_element_prefer_single_line", op |-> "get_value", key |-> "jsxElement.preferSingleLine", ty |-> "bool", dflt |-> <<"local", "prefer_single_line">>],
    [field |-> "mapped_type_prefer_single_line", op |-> "get_value", key |-> "mappedType.preferSingleLine", ty |-> "bool", dflt |-> <<"local", "prefer_single_line">>],
    [field |-> "member_expression_prefer_single_line", op |-> "get_value", key |-> "memberExpression.preferSingleLine", ty |-> "bool", dflt |-> <<"local", "prefer_single_line">>],
    [field |-> "object_expression_prefer_single_line", op |-> "get_value", key |-> "objectExpression.preferSingleLine", ty |-> "bool", dflt |-> <<"local", "prefer_single_line">>],
    [field |-> "object_pattern_prefer_single_line", op |-> "get_value", key |-> "objectPattern.preferSingleLine", ty |-> "bool", dflt |-> <<"local", "prefer_single_line">>],
    [field |-> "parameters_prefer_single_line", op |-> "get_value", key |-> "parameters.preferSingleLine", ty |-> "bool", dflt |-> <<"local", "prefer_single_line">>],
    [field |-> "parentheses_prefer_single_line", op |-> "get_value", key |-> "parentheses.preferSingleLine", ty |-> "bool", dflt |-> <<"local", "prefer_single_line">>],
    [field |-> "tuple_type_prefer_single_line", op |-> "get_value", key |-> "tupleType.preferSingleLine", ty |-> "bool", dflt |-> <<"local", "prefer_single_line">>],
    [field |-> "type_literal_prefer_single_line", op |-> "get_value", key |-> "typeLiteral.preferSingleLine", ty |-> "bool", dflt |-> <<"local", "prefer_single_line">>],
    [field |-> "type_parameters_prefer_single_line", op |-> "get_value", key |-> "typeParameters.preferSingleLine", ty |-> "bool", dflt |-> <<"local", "prefer_single_line">>],
    [field |-> "union_and_intersection_type_prefer_single_line", op |-> "get_value", key |-> "unionAndIntersectionType.preferSingleLine", ty |-> "bool", dflt |-> <<"local", "prefer_single_line">>],
    [field |-> "variable_statement_prefer_single_line", op |-> "get_value", key |-> "variableStatement.preferSingleLine", ty |-> "bool", dflt |-> <<"local", "prefer_single_line">>],
    [field |-> "import_declaration_force_single_line", op |-> "get_value", key |-> "importDeclaration.forceSingleLine", ty |-> "bool", dflt |-> <<"const", FALSE>>],
    [field |-> "export_declaration_force_single_line", op |-> "get_value", key |-> "exportDeclaration.forceSingleLine", ty |-> "bool", dflt |-> <<"const", FALSE>>],
    [field |-> "import_declaration_force_multi_line", op |-> "get_value", key |-> "importDeclaration.forceMultiLine", ty |-> "ForceMultiLine", dflt |-> <<"const", "Never">>],
    [field |-> "export_declaration_force_multi_line", op |-> "get_value", key |-> "exportDeclaration.forceMultiLine", ty |-> "ForceMultiLine", dflt |-> <<"const", "Never">>],
    [field |-> "binary_expression_space_surrounding_bitwise_and_arithmetic_operator", op |-> "get_value", key |-> "binaryExpression.spaceSurroundingBitwiseAndArithmeticOperator", ty |-> "bool", dflt |-> <<"const", TRUE>>],
    [field |-> "comment_line_force_space_after_slashes", op |-> "get_value", key |-> "commentLine.forceSpaceAfterSlashes", ty |-> "bool", dflt |-> <<"const", TRUE>>],
    [field |-> "construct_signature_space_after_new_keyword", op |-> "get_value", key |-> "constructSignature.spaceAfterNewKeyword", ty |-> "bool", dflt |-> <<"const", FALSE>>],
    [field |-> "constructor_space_before_parentheses", op |-> "get_value", key |-> "constructor.spaceBeforeParentheses", ty |-> "bool", dflt |-> <<"const", FALSE>>],
    [field |-> "constructor_type_space_after_new_keyword", op |-> "get_value", key |-> "constructorType.spaceAfterNewKeyword", ty |-> "bool", dflt |-> <<"const", FALSE>>],
    [field |-> "do_while_statement_space_after_while_keyword", op |-> "get_value", key |-> "doWhileStatement.spaceAfterWhileKeyword", ty |-> "bool", dflt |-> <<"const", TRUE>>],
    [field |-> "export_declaration_space_surrounding_named_exports", op |-> "get_value", key |-> "exportDeclaration.spaceSurroundingNamedExports", ty |-> "bool", dflt |-> <<"const", TRUE>>],
    [field |-> "for_statement_space_after_for_keyword", op |-> "get_value", key |-> "forStatement.spaceAfterForKeyword", ty |-> "bool", dflt |-> <<"const", TRUE>>],
    [field |-> "for_statement_space_after_semi_colons", op |-> "get_value", key |-> "forStatement.spaceAfterSemiColons", ty |-> "bool", dflt |-> <<"const", TRUE>>],
    [field |-> "for_in_statement_space_after_for_keyword", op |-> "get_value", key |-> "forInStatement.spaceAfterForKeyword", ty |-> "bool", dflt |-> <<"const", TRUE>>],
    [field |-> "for_of_statement_space_after_for_keyword", op |-> "get_value", key |-> "forOfStatement.spaceAfterForKeyword", ty |-> "bool", dflt |-> <<"const", TRUE>>],
    [field |-> "function_declaration_space_before_parentheses", op |-> "get_value", key |-> "functionDeclaration.spaceBeforeParentheses", ty |-> "bool", dflt |-> <<"const", FALSE>>],
    [field |-> "function_expression_space_before_parentheses", op |-> "get_value", key |-> "functionExpression.spaceBeforeParentheses", ty |-> "bool", dflt |-> <<"const", FALSE>>],
    [field |-> "function_expression_space_after_function_keyword", op |-> "get_value", key |-> "functionExpression.spaceAfterFunctionKeyword", ty |-> "bool", dflt |-> <<"const", FALSE>>],
    [field |-> "get_accessor_space_before_parentheses", op |-> "get_value", key |-> "getAccessor.spaceBeforeParentheses", ty |-> "bool", dflt |-> <<"const", FALSE>>],
    [field |-> "if_statement_space_after_if_keyword", op |-> "get_value", key |-> "ifStatement.spaceAfterIfKeyword", ty |-> "bool", dflt |-> <<"const", TRUE>>],
    [field |-> "import_declaration_space_surrounding_named_imports", op |-> "get_value", key |-> "importDeclaration.spaceSurroundingNamedImports", ty |-> "bool", dflt |-> <<"const", TRUE>>],
    [field |-> "jsx_expression_container_space_surrounding_expression", op |-> "get_value", key |-> "jsxExpressionContainer.spaceSurroundingExpression", ty |-> "bool", dflt |-> <<"const", FALSE>>],
    [field |-> "jsx_self_closing_element_space_before_slash", op |-> "get_value", key |-> "jsxSelfClosingElement.spaceBeforeSlash", ty |-> "bool", dflt |-> <<"const", TRUE>>],
    [field |-> "method_space_before_parentheses", op |-> "get_value", key |-> "method.spaceBeforeParentheses", ty |-> "bool", dflt |-> <<"const", FALSE>>],
    [field |-> "object_expression_space_surrounding_properties", op |-> "get_value", key |-> "objectExpression.spaceSurroundingProperties", ty |-> "bool", dflt |-> <<"local", "space_surrounding_properties">>],
    [field |-> "object_pattern_space_surrounding_properties", op |-> "get_value", key |-> "objectPattern.spaceSurroundingProperties", ty |-> "bool", dflt |-> <<"local", "space_surrounding_properties">>],
    [field |-> "set_accessor_space_before_parentheses", op |-> "get_value", key |-> "setAccessor.spaceBeforeParentheses", ty |-> "bool", dflt |-> <<"const", FALSE>>],
    [field |-> "space_surrounding_properties", op |-> "copy", key |-> "", ty |-> "bool", dflt |-> <<"local", "space_surrounding_properties">>],
    [field |-> "tagged_template_space_before_literal", op |-> "get_value", key |-> "taggedTemplate.spaceBeforeLiteral", ty |-> "bool", dflt |-> <<"const", FALSE>>],
    [field |-> "type_annotation_space_before_colon", op |-> "get_value", key |-> "typeAnnotation.spaceBeforeColon", ty |-> "bool", dflt |-> <<"const", FALSE>>],
    [field |-> "type_assertion_space_before_expression", op |-> "get_value", key |-> "typeAssertion.spaceBeforeExpression", ty |-> "bool", dflt |-> <<"const", TRUE>>],
    [field |-> "type_literal_space_surrounding_properties", op |-> "get_value", key |-> "typeLiteral.spaceSurroundingProperties", ty |-> "bool", dflt |-> <<"local", "space_surrounding_properties">>],
    [field |-> "while_statement_space_after_while_keyword", op |-> "get_value", key |-> "whileStatement.spaceAfterWhileKeyword", ty |-> "bool", dflt |-> <<"const", TRUE>>],
    [field |-> "arguments_space_around", op |-> "get_value", key |-> "arguments.spaceAround", ty |-> "bool", dflt |-> <<"local", "space_around">>],
    [field |-> "array_expression_space_around", op |-> "get_value", key |-> "arrayExpression.spaceAround", ty |-> "bool", dflt |-> <<"local", "space_around">>],
    [field |-> "array_pattern_space_around", op |-> "get_value", key |-> "arrayPattern.spaceAround", ty |-> "bool", dflt |-> <<"local", "space_around">>],
    [field |-> "catch_clause_space_around", op |-> "get_value", key |-> "catchClause.spaceAround", ty |-> "bool", dflt |-> <<"local", "space_around">>],
    [field |-> "do_while_statement_space_around", op |-> "get_value", key |-> "doWhileStatement.spaceAround", ty |-> "bool", dflt |-> <<"local", "space_around">>],
    [field |-> "for_in_statement_space_around", op |-> "get_value", key |-> "forInStatement.spaceAround", ty |-> "bool", dflt |-> <<"local", "space_around">>],
    [field |-> "for_of_statement_space_around", op |-> "get_value", key |-> "forOfStatement.spaceAround", ty |-> "bool", dflt |-> <<"local", "space_around">>],
    [field |-> "for_statement_space_around", op |-> "get_value", key |-> "forStatement.spaceAround", ty |-> "bool", dflt |-> <<"local", "space_around">>],
    [field |-> "if_statement_space_around", op |-> "get_value", key |-> "ifStatement.spaceAround", ty |-> "bool", dflt |-> <<"local", "space_around">>],
    [field |-> "parameters_space_around", op |-> "get_value", key |-> "parameters.spaceAround", ty |-> "bool", dflt |-> <<"local", "space_around">>],
    [field |-> "paren_expression_space_around", op |-> "get_value", key |-> "parenExpression.spaceAround", ty |-> "bool", dflt |-> <<"local", "space_around">>],
    [field |-> "switch_statement_space_around", op |-> "get_value", key |-> "switchStatement.spaceAround", ty |-> "bool", dflt |-> <<"local", "space_around">>],
    [field |-> "tuple_type_space_around", op |-> "get_value", key |-> "tupleType.spaceAround", ty |-> "bool", dflt |-> <<"local", "space_around">>],
    [field |-> "while_statement_space_around", op |-> "get_value", key |-> "whileStatement.spaceAround", ty |-> "bool", dflt |-> <<"local", "space_around">>]
  >>

(* ---------------- the deno preset ---------------- *)
\* ConfigurationBuilder::new().deno().config
DenoConfig ==
  "lineWidth" :> Number(80) @@ "indentWidth" :> Number(2)
  @@ "nextControlFlowPosition" :> String("sameLine")
  @@ "binaryExpression.operatorPosition" :> String("sameLine")
  @@ "bracePosition" :> String("sameLine")
  @@ "commentLine.forceSpaceAfterSlashes" :> Bool(FALSE)
  @@ "constructSignature.spaceAfterNewKeyword" :> Bool(TRUE)
  @@ "constructorType.spaceAfterNewKeyword" :> Bool(TRUE)
  @@ "arrowFunction.useParentheses" :> String("force")
  @@ "newLineKind" :> String("lf")
  @@ "functionExpression.spaceAfterFunctionKeyword" :> Bool(TRUE)
  @@ "taggedTemplate.spaceBeforeLiteral" :> Bool(FALSE)
  @@ "conditionalExpression.preferSingleLine" :> Bool(TRUE)
  @@ "quoteStyle" :> String("preferDouble")
  @@ "ignoreNodeCommentText" :> String("deno-fmt-ignore")
  @@ "ignoreFileCommentText" :> String("deno-fmt-ignore-file")
  @@ "module.sortImportDeclarations" :> String("maintain")
  @@ "module.sortExportDeclarations" :> String("maintain")

\* fill_deno_config inserting every preset entry, over the map's own
fill_deno_config_overwriting(config) ==
  [k \in DOMAIN config \cup DOMAIN DenoConfig |-> IF k \in DOMAIN DenoConfig THEN DenoConfig[k] ELSE config[k]]

\* insert every preset entry whose key the map does not hold
fill_deno_config(config) ==
  [k \in DOMAIN config \cup DOMAIN DenoConfig |-> IF k \in DOMAIN config THEN config[k] ELSE DenoConfig[k]]

(* ---------------- resolve_config, block by block ---------------- *)
\* line 57
prefer_hanging_granular(prefer_hanging) == IF prefer_hanging THEN "Always" ELSE "Never"
\* line 59
prefer_single_line(prefer_single_line_nullable) == unwrap_or(prefer_single_line_nullable, FALSE)

\* expand_preset with the test of the flag inverted
expand_preset_inverted(config, diagnostics) ==
  LET r == get_value(config, "deno", "bool", FALSE, diagnostics)
  IN [config |-> IF r.value THEN r.config ELSE fill_deno_config(r.config), diagnostics |-> r.diagnostics]

\* expand_preset merging the preset whenever the map has the flag, whatever
\* its value
expand_preset_on_presence(config, diagnostics) ==
  LET r == get_value(config, "deno", "bool", FALSE, diagnostics)
  IN [config |-> IF "deno" \in DOMAIN config THEN fill_deno_config(r.config) ELSE r.config,
      diagnostics |-> r.diagnostics]

\* lines 31-33: extract the preset flag, merge the preset when it is set
expand_preset(config, diagnostics) ==
  LET r == get_value(config, "deno", "bool", FALSE, diagnostics)
  IN [config |-> IF r.value THEN fill_deno_config(r.config) ELSE r.config, diagnostics |-> r.diagnostics]

\* resolve_category reading the key without consuming it from the map
resolve_category_keeping_key(c, acc) ==
  CHOOSE out \in {[config |-> acc.config, diagnostics |-> r.diagnostics, locals |-> (c.var :> r.value) @@ acc.locals] :
                   r \in {IF c.op = "get_nullable_value"
                            THEN get_nullable_value(acc.config, c.key, c.ty, acc.diagnostics)
                            ELSE get_value(acc.config, c.key, c.ty, c.dflt, acc.diagnostics)}} : TRUE

\* one `let` of lines 49-65; acc is [config, diagnostics, locals]
resolve_category(c, acc) ==
  CHOOSE out \in {[config |-> r.config, diagnostics |-> r.diagnostics, locals |-> (c.var :> r.value) @@ acc.locals] :
                   r \in {IF c.op = "get_nullable_value"
                            THEN get_nullable_value(acc.config, c.key, c.ty, acc.diagnostics)
                            ELSE get_value(acc.config, c.key, c.ty, c.dflt, acc.diagnostics)}} : TRUE

\* lines 49-65: Categories[lo .. hi] in source order
RECURSIVE resolve_categories(_, _, _)
resolve_categories(lo, hi, acc) ==
  IF lo > hi THEN acc
  ELSE IF lo = hi THEN resolve_category(Categories[lo], acc)
  ELSE LET mid == (lo + hi) \div 2
       IN CHOOSE out \in {resolve_categories(mid + 1, hi, left) :
                           left \in {resolve_categories(lo, mid, acc)}} : TRUE

\* the local variables of lines 49-65, the derived ones of lines 57 and 59 included
category_locals(config, diagnostics) ==
  [resolve_categories(1, Len(Categories), [config |-> config, diagnostics |-> diagnostics, locals |-> <<>>])
     EXCEPT !.locals = ("prefer_hanging_granular" :> prefer_hanging_granular(@["prefer_hanging"]))
                          @@ ("prefer_single_line" :> prefer_single_line(@["prefer_single_line_nullable"]))
                          @@ @]

\* DefaultOf with jsx.quoteStyle defaulting to the QuoteStyle itself, unconverted
DefaultOfUnconverted(dflt, locals, global_config) ==
  CASE dflt[1] = "const" -> dflt[2]
    [] dflt[1] = "local" -> locals[dflt[2]]
    [] dflt[1] = "global" -> unwrap_or(global_config[dflt[2]], RECOMMENDED_GLOBAL_CONFIGURATION[dflt[2]])
    [] dflt[1] = "to_jsx_quote_style" -> locals[dflt[2]]
    [] dflt[1] = "unwrap_or_true" -> unwrap_or(locals[dflt[2]], TRUE)

\* DefaultOf with the singleBodyPosition leaves reading jsx_bracket_position,
\* another local of the same type
DefaultOfWrongLocal(dflt, locals, global_config) ==
  CASE dflt[1] = "const" -> dflt[2]
    [] dflt[1] = "local" ->
         IF dflt[2] = "single_body_position" THEN locals["jsx_bracket_position"] ELSE locals[dflt[2]]
    [] dflt[1] = "global" -> unwrap_or(global_config[dflt[2]], RECOMMENDED_GLOBAL_CONFIGURATION[dflt[2]])
    [] dflt[1] = "to_jsx_quote_style" -> to_jsx_quote_style(locals[dflt[2]])
    [] dflt[1] = "unwrap_or_true" -> unwrap_or(locals[dflt[2]], TRUE)

\* DefaultOf with the global options defaulting to the recommended values,
\* whatever the GlobalConfiguration holds
DefaultOfIgnoringGlobal(dflt, locals, global_config) ==
  CASE dflt[1] = "const" -> dflt[2]
    [] dflt[1] = "local" -> locals[dflt[2]]
    [] dflt[1] = "global" -> RECOMMENDED_GLOBAL_CONFIGURATION[dflt[2]]
    [] dflt[1] = "to_jsx_quote_style" -> to_jsx_quote_style(locals[dflt[2]])
    [] dflt[1] = "unwrap_or_true" -> unwrap_or(locals[dflt[2]], TRUE)

\* DefaultOf with importDeclaration/exportDeclaration.preferSingleLine
\* defaulting like the other preferSingleLine leaves
DefaultOfUnified(dflt, locals, global_config) ==
  CASE dflt[1] = "const" -> dflt[2]
    [] dflt[1] = "local" -> locals[dflt[2]]
    [] dflt[1] = "global" -> unwrap_or(global_config[dflt[2]], RECOMMENDED_GLOBAL_CONFIGURATION[dflt[2]])
    [] dflt[1] = "to_jsx_quote_style" -> to_jsx_quote_style(locals[dflt[2]])
    [] dflt[1] = "unwrap_or_true" -> unwrap_or(locals[dflt[2]], FALSE)

\* the default expression of a field of the Configuration literal
DefaultOf(dflt, locals, global_config) ==
  CASE dflt[1] = "const" -> dflt[2]
    [] dflt[1] = "local" -> locals[dflt[2]]
    [] dflt[1] = "global" -> unwrap_or(global_config[dflt[2]], RECOMMENDED_GLOBAL_CONFIGURATION[dflt[2]])
    [] dflt[1] = "to_jsx_quote_style" -> to_jsx_quote_style(locals[dflt[2]])
    [] dflt[1] = "unwrap_or_true" -> unwrap_or(locals[dflt[2]], TRUE)

\* resolve_field losing the diagnostics of the extraction
resolve_field_dropping_diagnostics(f, acc, locals, global_config) ==
  LET d == DefaultOf(f.dflt, locals, global_config)
  IN IF f.op = "copy"
       THEN [acc EXCEPT !.values = (f.field :> d) @@ @]
       ELSE CHOOSE out \in {[config |-> r.config, diagnostics |-> acc.diagnostics,
                              values |-> (f.field :> r.value) @@ acc.values] :
                             r \in {get_value(acc.config, f.key, f.ty, d, acc.diagnostics)}} : TRUE

\* one field of the Configuration literal; acc is [config, diagnostics, values]
resolve_field(f, acc, locals, global_config) ==
  LET d == DefaultOf(f.dflt, locals, global_config)
  IN IF f.op = "copy"
       THEN [acc EXCEPT !.values = (f.field :> d) @@ @]
       ELSE CHOOSE out \in {[config |-> r.config, diagnostics |-> r.diagnostics,
                              values |-> (f.field :> r.value) @@ acc.values] :
                             r \in {get_value(acc.config, f.key, f.ty, d, acc.diagnostics)}} : TRUE

\* lines 67-336: Fields[lo .. hi] in source order
RECURSIVE resolve_fields(_, _, _, _, _)
resolve_fields(lo, hi, acc, locals, global_config) ==
  IF lo > hi THEN acc
  ELSE IF lo = hi THEN resolve_field(Fields[lo], acc, locals, global_config)
  ELSE LET mid == (lo + hi) \div 2
       IN CHOOSE out \in {resolve_fields(mid + 1, hi, left, locals, global_config) :
                           left \in {resolve_fields(lo, mid, acc, locals, global_config)}} : TRUE

\* lines 67-336 on a map and diagnostics
configuration_literal(config, diagnostics, locals, global_config) ==
  resolve_fields(1, Len(Fields), [config |-> config, diagnostics |-> diagnostics, values |-> <<>>],
                 locals, global_config)

\* ConfigurationBuilder::build: the configuration resolve_config returns for
\* the builder's map
build(config, global_config) ==
  LET a == expand_preset(config, <<>>)
      b == handle_renamed_config_property(a.config, "jsxElement.spaceBeforeSelfClosingTagSlash",
                                          "jsxSelfClosingElement.spaceBeforeSlash", a.diagnostics)
      c == handle_renamed_config_property(b.config, "jsx.spaceBeforeSelfClosingTagSlash",
                                          "jsxSelfClosingElement.spaceBeforeSlash", b.diagnostics)
      d == category_locals(c.config, c.diagnostics)
  IN configuration_literal(d.config, d.diagnostics, d.locals, global_config).values

FieldNames == {Fields[i].field : i \in DOMAIN Fields}

(* ---------------- the known keys ---------------- *)
KnownKeys == ({Categories[i].key : i \in DOMAIN Categories} \cup {Fields[i].key : i \in DOMAIN Fields}) \ {""}
TypeOfKey ==
  [k \in KnownKeys |->
     IF \E i \in DOMAIN Categories : Categories[i].key = k
       THEN Categories[CHOOSE i \in DOMAIN Categories : Categories[i].key = k].ty
       ELSE Fields[CHOOSE i \in DOMAIN Fields : Fields[i].key = k].ty]

\* the keys resolve_config reads: lines 31, 36-47 and 49-336
ReadKeys ==
  KnownKeys \cup {"deno", "jsxElement.spaceBeforeSelfClosingTagSlash", "jsx.spaceBeforeSelfClosingTagSlash"}

\* iteration is the order in which the caller's map iterates the entries that
\* no step reads: it belongs to the map passed in. previous holds the results
\* of the earlier calls with the same arguments.
VARIABLES input, global_config, iteration, previous, config, diagnostics, locals, resolved_config, result, pc
\* the state of a call of file_text_has_ignore_comment: its two arguments, the
\* index in file_text of the character the CharIterator yields next, and the
\* value returned
VARIABLES file_text, ignore_text, iterator, has_ignore_comment
resolve_vars == <<input, global_config, iteration, previous, config, diagnostics, locals, resolved_config, result>>
scan_vars == <<file_text, ignore_text, iterator, has_ignore_comment>>
vars == <<resolve_vars, scan_vars, pc>>

NoResult == <<>>

InitWith(inputs, globals) ==
  /\ input \in inputs
  /\ global_config \in globals
  /\ iteration \in Orderings(DOMAIN input \ ReadKeys)
  /\ previous = <<>>
  /\ config = input
  /\ diagnostics = <<>>
  /\ locals = <<>>
  /\ resolved_config = <<>>
  /\ result = NoResult
  /\ pc = "expand_preset"
  /\ file_text = <<>> /\ ignore_text = <<>> /\ iterator = 1 /\ has_ignore_comment = None

\* lines 31-33 left out: the preset flag is neither read nor expanded
ExpandPresetSkipped ==
  /\ pc = "expand_preset"
  /\ pc' = "rename_jsx_element"
  /\ UNCHANGED <<input, global_config, iteration, previous, config, diagnostics, locals, resolved_config, result>>
  /\ UNCHANGED scan_vars

\* lines 31-33
ExpandPreset ==
  /\ pc = "expand_preset"
  /\ \E r \in {expand_preset(config, diagnostics)} :
        config' = r.config /\ diagnostics' = r.diagnostics
  /\ pc' = "rename_jsx_element"
  /\ UNCHANGED <<input, global_config, iteration, previous, locals, resolved_config, result>>
  /\ UNCHANGED scan_vars

\* lines 36-41 left out: the old key is not redirected
RenameJsxElementSkipped ==
  /\ pc = "rename_jsx_element"
  /\ pc' = "rename_jsx"
  /\ UNCHANGED <<input, global_config, iteration, previous, config, diagnostics, locals, resolved_config, result>>
  /\ UNCHANGED scan_vars

\* lines 36-41 forwarding the old key's value only if it is a boolean
RenameJsxElementValidating ==
  /\ pc = "rename_jsx_element"
  /\ LET old_key == "jsxElement.spaceBeforeSelfClosingTagSlash"
         r == handle_renamed_config_property(config, old_key, "jsxSelfClosingElement.spaceBeforeSlash", diagnostics)
     IN /\ config' = IF old_key \in DOMAIN config /\ parse("bool", config[old_key]) = None
                       THEN [k \in DOMAIN config \ {old_key} |-> config[k]]
                       ELSE r.config
        /\ diagnostics' = r.diagnostics
  /\ pc' = "rename_jsx"
  /\ UNCHANGED <<input, global_config, iteration, previous, locals, resolved_config, result>>
  /\ UNCHANGED scan_vars

\* lines 36-41
RenameJsxElement ==
  /\ pc = "rename_jsx_element"
  /\ LET r == handle_renamed_config_property(config, "jsxElement.spaceBeforeSelfClosingTagSlash",
                                             "jsxSelfClosingElement.spaceBeforeSlash", diagnostics)
     IN config' = r.config /\ diagnostics' = r.diagnostics
  /\ pc' = "rename_jsx"
  /\ UNCHANGED <<input, global_config, iteration, previous, locals, resolved_config, result>>
  /\ UNCHANGED scan_vars

\* lines 42-47 redirecting the old key of lines 36-41 a second time
RenameJsxRepeated ==
  /\ pc = "rename_jsx"
  /\ LET r == handle_renamed_config_property(config, "jsxElement.spaceBeforeSelfClosingTagSlash",
                                             "jsxSelfClosingElement.spaceBeforeSlash", diagnostics)
     IN config' = r.config /\ diagnostics' = r.diagnostics
  /\ pc' = "categories"
  /\ UNCHANGED <<input, global_config, iteration, previous, locals, resolved_config, result>>
  /\ UNCHANGED scan_vars

\* lines 42-47
RenameJsx ==
  /\ pc = "rename_jsx"
  /\ LET r == handle_renamed_config_property(config, "jsx.spaceBeforeSelfClosingTagSlash",
                                             "jsxSelfClosingElement.spaceBeforeSlash", diagnostics)
     IN config' = r.config /\ diagnostics' = r.diagnostics
  /\ pc' = "categories"
  /\ UNCHANGED <<input, global_config, iteration, previous, locals, resolved_config, result>>
  /\ UNCHANGED scan_vars

\* lines 49-65
ResolveCategories ==
  /\ pc = "categories"
  /\ \E r \in {category_locals(config, diagnostics)} :
        config' = r.config /\ diagnostics' = r.diagnostics /\ locals' = r.locals
  /\ pc' = "fields"
  /\ UNCHANGED <<input, global_config, iteration, previous, resolved_config, result>>
  /\ UNCHANGED scan_vars

\* lines 67-336
ResolveFields ==
  /\ pc = "fields"
  /\ \E r \in {configuration_literal(config, diagnostics, locals, global_config)} :
        /\ config' = r.config
        /\ diagnostics' = r.diagnostics
        /\ resolved_config' = r.values
  /\ pc' = "unknown"
  /\ UNCHANGED <<input, global_config, iteration, previous, locals, result>>
  /\ UNCHANGED scan_vars

\* line 338 iterating the entries in an order that the map passed in does
\* not decide
ReportUnknownAnyOrder ==
  /\ pc = "unknown"
  /\ \E order \in Orderings(DOMAIN config) :
       diagnostics' = diagnostics \o get_unknown_property_diagnostics(config, order)
  /\ config' = <<>>
  /\ pc' = "return"
  /\ UNCHANGED <<input, global_config, iteration, previous, locals, resolved_config, result>>
  /\ UNCHANGED scan_vars

\* line 338 with the unknown-key diagnostics put in front of the others
ReportUnknownFirst ==
  /\ pc = "unknown"
  /\ diagnostics' = get_unknown_property_diagnostics(config, IterationOrder(config, iteration)) \o diagnostics
  /\ config' = <<>>
  /\ pc' = "return"
  /\ UNCHANGED <<input, global_config, iteration, previous, locals, resolved_config, result>>
  /\ UNCHANGED scan_vars

\* line 338
ReportUnknown ==
  /\ pc = "unknown"
  /\ diagnostics' = diagnostics \o get_unknown_property_diagnostics(config, IterationOrder(config, iteration))
  /\ config' = <<>>
  /\ pc' = "return"
  /\ UNCHANGED <<input, global_config, iteration, previous, locals, resolved_config, result>>
  /\ UNCHANGED scan_vars

\* lines 340-343
Return ==
  /\ pc = "return"
  /\ result' = [config |-> resolved_config, diagnostics |-> diagnostics]
  /\ pc' = "done"
  /\ UNCHANGED <<input, global_config, iteration, previous, config, diagnostics, locals, resolved_config>>
  /\ UNCHANGED scan_vars

Next ==
  \/ ExpandPreset
  \/ RenameJsxElement
  \/ RenameJsx
  \/ ResolveCategories
  \/ ResolveFields
  \/ ReportUnknown
  \/ Return

(* ---------------- inputs ---------------- *)
MaxEntries == 3
MaxCalls == 2

DefaultGlobal == [line_width |-> None, use_tabs |-> None, indent_width |-> None, new_line_kind |-> None]
\* GlobalConfiguration: every field unset or set
GlobalConfigurations ==
  [line_width : {None, Some(80)}, use_tabs : {None, Some(TRUE)},
   indent_width : {None, Some(8)}, new_line_kind : {None, Some("CarriageReturnLineFeed")}]

DeprecatedKeys == {"jsxElement.spaceBeforeSelfClosingTagSlash", "jsx.spaceBeforeSelfClosingTagSlash"}
NewKey == "jsxSelfClosingElement.spaceBeforeSlash"
UnknownKeys == {"unknownOption", "anotherUnknown"}

\* raw values tried for an option of type ty: well-typed ones and malformed ones
ValidSample(ty) ==
  CASE ty = "bool" -> {Bool(TRUE), Bool(FALSE)}
    [] ty = "String" -> {String("custom-ignore")}
    [] ty \in DOMAIN IntMax -> {Number(8), Number(80)}
    [] OTHER -> {String(s) : s \in DOMAIN EnumTypes[ty]}
MalformedSample(ty) == {r \in {String("bogus"), Number(300), Bool(TRUE)} : parse(ty, r) = None}
Candidates == [k \in KnownKeys |-> ValidSample(TypeOfKey[k]) \cup MalformedSample(TypeOfKey[k])]

\* the maps with exactly the keys ks, each with a value of vals[k]
MapsOn(ks, vals) == {m \in [ks -> UNION {vals[k] : k \in ks}] : \A k \in ks : m[k] \in vals[k]}
\* the maps with at most n of the keys of DOMAIN vals
MapsUpTo(n, vals) == UNION {MapsOn(ks, vals) : ks \in {x \in SUBSET DOMAIN vals : Cardinality(x) <= n}}

\* Spec: every map of at most MaxEntries entries over a sample of keys of
\* every sort (preset flag, deprecated, renamed-to, category, leaf, global,
\* unknown), each well-typed or malformed
SampleInputs ==
  "deno" :> {Bool(TRUE), String("bogus")}
  @@ "jsxElement.spaceBeforeSelfClosingTagSlash" :> {Bool(FALSE), String("bogus")}
  @@ "jsx.spaceBeforeSelfClosingTagSlash" :> {Bool(FALSE), Bool(TRUE), Number(300)}
  @@ "jsxSelfClosingElement.spaceBeforeSlash" :> {Bool(FALSE), Bool(TRUE)}
  @@ "bracePosition" :> {String("nextLine"), String("bogus")}
  @@ "arrowFunction.bracePosition" :> {String("maintain"), Bool(TRUE)}
  @@ "preferSingleLine" :> {Bool(TRUE), Bool(FALSE), String("bogus")}
  @@ "importDeclaration.preferSingleLine" :> {Bool(FALSE), Number(300)}
  @@ "indentWidth" :> {Number(8), Number(300)}
  @@ "unknownOption" :> {Bool(TRUE)}
  @@ "anotherUnknown" :> {String("bogus")}

Init == InitWith(MapsUpTo(MaxEntries, SampleInputs), {DefaultGlobal, [DefaultGlobal EXCEPT !.indent_width = Some(8)]})
Spec == Init /\ [][Next]_vars

\* SpecTwice: resolve_config called up to MaxCalls times with the same map and
\* GlobalConfiguration. Lines 27-29 of a further call: the call owns a fresh
\* diagnostics vector and its own copy of the map.
CallAgain ==
  /\ pc = "done"
  /\ Len(previous) + 1 < MaxCalls
  /\ previous' = Append(previous, result)
  /\ config' = input
  /\ diagnostics' = <<>>
  /\ locals' = <<>>
  /\ resolved_config' = <<>>
  /\ result' = NoResult
  /\ pc' = "expand_preset"
  /\ UNCHANGED <<input, global_config, iteration>>
  /\ UNCHANGED scan_vars
NextTwice == Next \/ CallAgain
SpecTwice == Init /\ [][NextTwice]_vars

\* SpecSchema: every known key alone with every sampled value, and every
\* leaf together with the category its default is read from
CategoryOfLocal == [v \in {Categories[i].var : i \in DOMAIN Categories} |->
                      Categories[CHOOSE i \in DOMAIN Categories : Categories[i].var = v].key]
\* the local variable a field's default expression reads, if any
LocalRead(f) ==
  CASE f.dflt[1] \in {"local", "to_jsx_quote_style", "unwrap_or_true"} ->
         IF f.dflt[2] = "prefer_hanging_granular" THEN Some("prefer_hanging")
         ELSE IF f.dflt[2] = "prefer_single_line" THEN Some("prefer_single_line_nullable")
         ELSE Some(f.dflt[2])
    [] OTHER -> None
Leaves == {i \in DOMAIN Fields : Fields[i].op = "get_value" /\ LocalRead(Fields[i]) # None}
CascadePairs ==
  UNION {MapsOn({Fields[i].key, CategoryOfLocal[LocalRead(Fields[i])[1]]}, Candidates) : i \in Leaves}
InitSchema ==
  InitWith({<<>>} \cup UNION {MapsOn({k}, Candidates) : k \in KnownKeys} \cup CascadePairs, {DefaultGlobal})
SpecSchema == InitSchema /\ [][Next]_vars

\* SpecGlobal: every map over the four global options, against every GlobalConfiguration
GlobalKeys == {"lineWidth", "useTabs", "indentWidth", "newLineKind"}
GlobalInputs ==
  "lineWidth" :> {Number(100), String("bogus")}
  @@ "useTabs" :> {Bool(TRUE), Bool(FALSE), Number(300)}
  @@ "indentWidth" :> {Number(4), Number(300)}
  @@ "newLineKind" :> {String("auto"), String("bogus")}
InitGlobal == InitWith(MapsUpTo(Cardinality(GlobalKeys), GlobalInputs), GlobalConfigurations)
SpecGlobal == InitGlobal /\ [][Next]_vars

\* SpecDeno: the preset flag together with at most MaxEntries overrides of
\* preset keys and of one key outside the preset
DenoInputs ==
  [k \in DOMAIN DenoConfig |-> {CHOOSE r \in ValidSample(TypeOfKey[k]) : r # DenoConfig[k],
                                CHOOSE r \in MalformedSample(TypeOfKey[k]) : TRUE}]
  @@ "semiColons" :> {String("asi")}
InitDeno ==
  InitWith({flag @@ m : flag \in MapsUpTo(1, "deno" :> {Bool(TRUE), Bool(FALSE), String("bogus")}),
                        m \in MapsUpTo(MaxEntries - 1, DenoInputs)}, {DefaultGlobal})
SpecDeno == InitDeno /\ [][Next]_vars

(* ======================= properties ======================= *)
(* ---------------- utils::CharIterator ---------------- *)
\* char::is_whitespace on the characters of the sampled texts
Whitespace == {" ", "\n", "\r", "\t"}

\* peek_next: the next character, if any, without consuming it
peek_next(text, it) == IF it <= Len(text) THEN Some(text[it]) ELSE None

\* move_next: the next character, if any, consumed
move_next(text, it) == [value |-> peek_next(text, it), iterator |-> IF it <= Len(text) THEN it + 1 ELSE it]

\* the iterator after consuming characters for as long as they are in chars
RECURSIVE skip_while(_, _, _)
skip_while(text, it, chars) ==
  IF it <= Len(text) /\ text[it] \in chars THEN skip_while(text, it + 1, chars) ELSE it

skip_whitespace(text, it) == skip_while(text, it, Whitespace)
skip_spaces(text, it) == skip_while(text, it, {" "})

\* skip_all_until_new_line: consumes up to the next line feed or the end
RECURSIVE skip_all_until_new_line(_, _)
skip_all_until_new_line(text, it) ==
  IF it <= Len(text) /\ text[it] # "\n" THEN skip_all_until_new_line(text, it + 1) ELSE it

\* check_text: consumes the characters that match `expected` one by one and
\* stops at the first that does not; matched once all of `expected` is read
RECURSIVE check_text(_, _, _)
check_text(text, it, expected) ==
  IF expected = <<>> THEN [matched |-> TRUE, iterator |-> it]
  ELSE IF peek_next(text, it) = Some(Head(expected)) THEN check_text(text, it + 1, Tail(expected))
  ELSE [matched |-> FALSE, iterator |-> it]

\* str::starts_with
starts_with(text, prefix) == Len(text) >= Len(prefix) /\ SubSeq(text, 1, Len(prefix)) = prefix

(* ---------------- file_text_has_ignore_comment ---------------- *)
\* `return b`
ReturnWith(b) == has_ignore_comment' = Some(b) /\ pc' = "returned"

\* lines 4-9
SkipShebang ==
  /\ pc = "shebang"
  /\ iterator' = IF starts_with(file_text, <<"#", "!">>)
                   THEN skip_all_until_new_line(file_text, move_next(file_text, move_next(file_text, iterator).iterator).iterator)
                   ELSE iterator
  /\ pc' = "loop"
  /\ UNCHANGED <<file_text, ignore_text, has_ignore_comment>>
  /\ UNCHANGED resolve_vars

\* lines 12-29, one iteration of the loop up to the call of a check
LoopIteration ==
  /\ pc = "loop"
  /\ peek_next(file_text, iterator) # None
  /\ \E first \in {move_next(file_text, skip_whitespace(file_text, iterator))} :
     \E second \in {move_next(file_text, first.iterator)} :
        IF first.value # Some("/")
          THEN iterator' = first.iterator /\ ReturnWith(FALSE)
          ELSE /\ iterator' = second.iterator
               /\ IF second.value = Some("/") THEN pc' = "check_single_line_comment" /\ UNCHANGED has_ignore_comment
                  ELSE IF second.value = Some("*") THEN pc' = "check_multi_line_comment" /\ UNCHANGED has_ignore_comment
                  ELSE ReturnWith(FALSE)
  /\ UNCHANGED <<file_text, ignore_text>>
  /\ UNCHANGED resolve_vars

\* line 32: the loop has ended
LoopExit ==
  /\ pc = "loop"
  /\ peek_next(file_text, iterator) = None
  /\ ReturnWith(FALSE)
  /\ UNCHANGED <<file_text, ignore_text, iterator>>
  /\ UNCHANGED resolve_vars

\* lines 34-43 skipping any whitespace, not only spaces, before the text
CheckSingleLineCommentSkippingWhitespace ==
  /\ pc = "check_single_line_comment"
  /\ \E c \in {check_text(file_text, skip_whitespace(file_text, iterator), ignore_text)} :
       IF c.matched
         THEN iterator' = c.iterator /\ ReturnWith(TRUE)
         ELSE /\ iterator' = skip_all_until_new_line(file_text, c.iterator)
              /\ pc' = "loop"
              /\ UNCHANGED has_ignore_comment
  /\ UNCHANGED <<file_text, ignore_text>>
  /\ UNCHANGED resolve_vars

\* lines 34-43, and lines 17-19 on its return
CheckSingleLineComment ==
  /\ pc = "check_single_line_comment"
  /\ \E c \in {check_text(file_text, skip_spaces(file_text, iterator), ignore_text)} :
       IF c.matched
         THEN iterator' = c.iterator /\ ReturnWith(TRUE)
         ELSE /\ iterator' = skip_all_until_new_line(file_text, c.iterator)
              /\ pc' = "loop"
              /\ UNCHANGED has_ignore_comment
  /\ UNCHANGED <<file_text, ignore_text>>
  /\ UNCHANGED resolve_vars

\* lines 45-49, and lines 22-24 on its return
CheckMultiLineComment ==
  /\ pc = "check_multi_line_comment"
  /\ \E c \in {check_text(file_text, skip_whitespace(file_text, iterator), ignore_text)} :
       /\ iterator' = c.iterator
       /\ IF c.matched THEN ReturnWith(TRUE) ELSE pc' = "find_comment_end" /\ UNCHANGED has_ignore_comment
  /\ UNCHANGED <<file_text, ignore_text>>
  /\ UNCHANGED resolve_vars

\* lines 50-57 looking at the next character without consuming it
FindCommentEndPeeking ==
  /\ pc = "find_comment_end"
  /\ \E c \in {[value |-> peek_next(file_text, iterator), iterator |-> iterator]} :
       IF c.value = None
         THEN pc' = "loop" /\ iterator' = c.iterator
         ELSE IF c.value = Some("*") /\ peek_next(file_text, c.iterator) = Some("/")
           THEN pc' = "loop" /\ iterator' = move_next(file_text, c.iterator).iterator
           ELSE pc' = "find_comment_end" /\ iterator' = c.iterator
  /\ UNCHANGED <<file_text, ignore_text, has_ignore_comment>>
  /\ UNCHANGED resolve_vars

\* lines 50-57, one iteration of the `while let`, or its end
FindCommentEnd ==
  /\ pc = "find_comment_end"
  /\ \E c \in {move_next(file_text, iterator)} :
       IF c.value = None
         THEN pc' = "loop" /\ iterator' = c.iterator
         ELSE IF c.value = Some("*") /\ peek_next(file_text, c.iterator) = Some("/")
           THEN pc' = "loop" /\ iterator' = move_next(file_text, c.iterator).iterator
           ELSE pc' = "find_comment_end" /\ iterator' = c.iterator
  /\ UNCHANGED <<file_text, ignore_text, has_ignore_comment>>
  /\ UNCHANGED resolve_vars

NextScan ==
  \/ SkipShebang
  \/ LoopIteration
  \/ LoopExit
  \/ CheckSingleLineComment
  \/ CheckMultiLineComment
  \/ FindCommentEnd

\* the file texts tried: up to MaxSegments segments in a row
MaxSegments == 3
Segments ==
  { <<"#", "!">>, <<"x">>, <<"i">>, <<"i", "g">>, <<" ">>, <<"\n">>, <<"/">>, <<"*">>,
    <<"/", "/">>, <<"/", "*">>, <<"*", "/">>, <<"/", "/", "x", "\n">>, <<"/", "*", "x", "*", "/">>,
    <<"/", "*", "*", "/">>, <<"\t", "\r", "\n">> }
RECURSIVE TextsUpTo(_)
TextsUpTo(n) == IF n = 0 THEN {<<>>} ELSE LET shorter == TextsUpTo(n - 1)
                                         IN shorter \cup {t \o g : t \in shorter, g \in Segments}
IgnoreTexts == {<<"i", "g">>, <<"x">>}

InitScan ==
  /\ file_text \in TextsUpTo(MaxSegments)
  /\ ignore_text \in IgnoreTexts
  /\ iterator = 1
  /\ has_ignore_comment = None
  /\ pc = "shebang"
  /\ input = <<>> /\ global_config = DefaultGlobal /\ iteration = <<>> /\ previous = <<>>
  /\ config = <<>> /\ diagnostics = <<>> /\ locals = <<>> /\ resolved_config = <<>> /\ result = NoResult
SpecScan == InitScan /\ [][NextScan]_vars
\* the call runs on: no step of it waits for anything
FairSpecScan == SpecScan /\ WF_vars(NextScan)

(* ---------------- properties ---------------- *)
Done == pc = "done"
IsTypeMismatch(d) == d.message = ParseErrorMessage
IsDeprecation(d) == d.message = RenamedMessage(NewKey)
IsUnknown(d) == d.message = UnknownMessage
\* the positions of the diagnostics of each sort in seq
TypeMismatches(seq) == {i \in DOMAIN seq : IsTypeMismatch(seq[i])}
Deprecations(seq) == {i \in DOMAIN seq : IsDeprecation(seq[i])}
Unknowns(seq) == {i \in DOMAIN seq : IsUnknown(seq[i])}

\* C1: for every input map and GlobalConfiguration resolve_config runs to
\* its return (no state before the return is stuck), and the Configuration it
\* returns has every field, each holding a value of the field's type; the
\* anomalies met on the way are in the returned diagnostics only.
FullyPopulated ==
  /\ DOMAIN result.config = FieldNames
  /\ \A i \in DOMAIN Fields : result.config[Fields[i].field] \in TypeValues(Fields[i].ty)
  /\ \A i \in DOMAIN result.diagnostics :
       IsTypeMismatch(result.diagnostics[i]) \/ IsDeprecation(result.diagnostics[i])
         \/ IsUnknown(result.diagnostics[i])
C1_AlwaysFullyPopulated == (~Done => ENABLED Next) /\ (Done => FullyPopulated)

\* C1 witness: a call that met a malformed value, a deprecated key and an
\* unknown key has returned
C1_Witness ==
  /\ Done
  /\ TypeMismatches(result.diagnostics) # {}
  /\ Deprecations(result.diagnostics) # {}
  /\ Unknowns(result.diagnostics) # {}
  /\ DOMAIN result.config = FieldNames

\* where the value resolved for known key k is held: the local of a category
\* key, the Configuration field of any other
CategoryKeys == {Categories[i].key : i \in DOMAIN Categories}
ResolvedOf(k) ==
  IF k \in CategoryKeys
    THEN locals[Categories[CHOOSE i \in DOMAIN Categories : Categories[i].key = k].var]
    ELSE result.config[Fields[CHOOSE i \in DOMAIN Fields : Fields[i].key = k].field]

\* the parsed value the input gives key k, if it gives one that parses
Supplied(k) == IF k \in DOMAIN input THEN parse(TypeOfKey[k], input[k]) ELSE None

C2Categories ==
  {"bracePosition", "nextControlFlowPosition", "operatorPosition", "singleBodyPosition", "trailingCommas",
   "useBraces", "preferHanging", "spaceSurroundingProperties", "spaceAround", "typeLiteral.separatorKind",
   "jsx.bracketPosition", "quoteStyle"}
\* the category key whose value is the default of leaf f
CategoryOf(f) == CategoryOfLocal[LocalRead(f)[1]]
\* the value a leaf of f's type inherits from category value v
ImageOf(f, v) ==
  IF f.dflt[2] = "prefer_hanging_granular" THEN (IF v THEN "Always" ELSE "Never")
  ELSE IF f.dflt[1] = "to_jsx_quote_style"
         THEN (IF v \in {"AlwaysDouble", "PreferDouble"} THEN "PreferDouble" ELSE "PreferSingle")
  ELSE v

\* C2: cascade precedence. For every category C of C2Categories and every
\* leaf L whose default is read from it: the map {C = V} resolves L to V (to
\* V's image for the granular preferHanging leaves and jsx.quoteStyle), and
\* the map {C = V1, L = V2} resolves L to V2.
C2_CascadePrecedence ==
  Done =>
    /\ \A c \in C2Categories : \E i \in Leaves : CategoryOf(Fields[i]) = c
    /\ \A i \in Leaves :
         LET f == Fields[i]
             c == CategoryOf(f)
         IN (c \in C2Categories /\ Supplied(c) # None) =>
              /\ DOMAIN input = {c} => result.config[f.field] = ImageOf(f, Supplied(c)[1])
              /\ (DOMAIN input = {c, f.key} /\ Supplied(f.key) # None) =>
                   result.config[f.field] = Supplied(f.key)[1]

\* C2 witness: a returned call whose map set a category and one of its leaves
\* to different values; the leaf resolved to its own and a sibling leaf to
\* the category's
C2_Witness ==
  /\ Done
  /\ \E i, j \in Leaves :
       LET f == Fields[i]
           g == Fields[j]
           c == CategoryOf(f)
       IN /\ c \in C2Categories /\ CategoryOf(g) = c /\ i # j
          /\ DOMAIN input = {c, f.key}
          /\ Supplied(c) # None /\ Supplied(f.key) # None
          /\ ImageOf(f, Supplied(c)[1]) # Supplied(f.key)[1]
          /\ result.config[f.field] = Supplied(f.key)[1]
          /\ result.config[g.field] = ImageOf(g, Supplied(c)[1])

\* C3: with deno = true the preset is merged without overwriting: every
\* preset key the map sets (to a well-typed value) resolves to the map's value,
\* every preset key the map does not set resolves to the preset's value, and
\* every diagnostic names a key of the input map (the merge adds none).
C3_PresetFillsMissingOnly ==
  (Done /\ "deno" \in DOMAIN input /\ input["deno"] = Bool(TRUE)) =>
    /\ \A k \in DOMAIN DenoConfig :
         /\ Supplied(k) # None => ResolvedOf(k) = Supplied(k)[1]
         /\ k \notin DOMAIN input => ResolvedOf(k) = parse(TypeOfKey[k], DenoConfig[k])[1]
    /\ \A i \in DOMAIN result.diagnostics : result.diagnostics[i].property_name \in DOMAIN input

\* C3 witness: a returned call with deno = true whose map overrode one preset
\* key with a value other than the preset's and left another to the preset
C3_Witness ==
  /\ Done /\ "deno" \in DOMAIN input /\ input["deno"] = Bool(TRUE)
  /\ result.diagnostics = <<>>
  /\ \E k, j \in DOMAIN DenoConfig :
       /\ Supplied(k) # None /\ Supplied(k) # parse(TypeOfKey[k], DenoConfig[k])
       /\ ResolvedOf(k) = Supplied(k)[1]
       /\ j \notin DOMAIN input /\ ResolvedOf(j) = parse(TypeOfKey[j], DenoConfig[j])[1]

\* C4: the map {deno = true} resolves to the configuration the deno preset
\* builds directly, with no diagnostics: every preset key is a known key
\* with a well-typed value, so none is left over or mismatched.
C4_DenoOnlyEqualsPreset ==
  (Done /\ input = ("deno" :> Bool(TRUE))) =>
    /\ result.diagnostics = <<>>
    /\ result.config = build(DenoConfig, global_config)
    /\ \A k \in DOMAIN DenoConfig : k \in KnownKeys /\ ResolvedOf(k) = parse(TypeOfKey[k], DenoConfig[k])[1]

\* C4 witness: the call on {deno = true} has returned, with the preset's line
\* width and indent width
C4_Witness ==
  /\ Done /\ input = ("deno" :> Bool(TRUE))
  /\ result.config["line_width"] = 80 /\ result.config["indent_width"] = 2
  /\ result.diagnostics = <<>>

\* the GlobalConfiguration field behind each global option, and the
\* recommended baseline
GlobalFieldOf ==
  "lineWidth" :> "line_width" @@ "useTabs" :> "use_tabs" @@ "indentWidth" :> "indent_width"
  @@ "newLineKind" :> "new_line_kind"
Baseline == "lineWidth" :> 120 @@ "useTabs" :> FALSE @@ "indentWidth" :> 2 @@ "newLineKind" :> "LineFeed"

\* C5: lineWidth, useTabs, indentWidth and newLineKind each resolve to the
\* map's own value when it is present and well-typed, otherwise to the
\* GlobalConfiguration's value when that is set, otherwise to the baseline
\* (120, no tabs, 2, line feed); the empty map yields no diagnostics.
C5_GlobalCascade ==
  Done =>
    /\ \A g \in GlobalKeys :
         result.config[GlobalFieldOf[g]] =
           IF Supplied(g) # None THEN Supplied(g)[1]
           ELSE IF global_config[GlobalFieldOf[g]] # None THEN global_config[GlobalFieldOf[g]][1]
           ELSE Baseline[g]
    /\ input = <<>> => result.diagnostics = <<>>

\* C5 witness: a returned call in which one global option came from the map
\* over a set GlobalConfiguration value, one from the GlobalConfiguration and
\* one from the baseline
C5_Witness ==
  /\ Done
  /\ \E g1, g2, g3 \in GlobalKeys :
       /\ Supplied(g1) # None /\ global_config[GlobalFieldOf[g1]] # None
       /\ Supplied(g1) # global_config[GlobalFieldOf[g1]]
       /\ result.config[GlobalFieldOf[g1]] = Supplied(g1)[1]
       /\ g2 \notin DOMAIN input /\ global_config[GlobalFieldOf[g2]] # None
       /\ result.config[GlobalFieldOf[g2]] = global_config[GlobalFieldOf[g2]][1]
       /\ result.config[GlobalFieldOf[g2]] # Baseline[g2]
       /\ g3 \notin DOMAIN input /\ global_config[GlobalFieldOf[g3]] = None
       /\ result.config[GlobalFieldOf[g3]] = Baseline[g3]

\* the diagnostics of the result that name key k
Naming(k) == {i \in DOMAIN result.diagnostics : result.diagnostics[i].property_name = k}
SlashField == "jsx_self_closing_element_space_before_slash"

\* C6: every deprecated key of the input is removed from the map by its
\* redirect and yields exactly one diagnostic, a deprecation one (so it is
\* never reported as unknown); the field takes the new key's value Y when
\* the input has the new key, and otherwise the old key's value X.
C6_DeprecationForwarding ==
  /\ pc \in {"categories", "fields", "unknown"} => DOMAIN config \cap DeprecatedKeys = {}
  /\ Done =>
       /\ \A old \in DeprecatedKeys \cap DOMAIN input :
            /\ Cardinality(Naming(old)) = 1
            /\ \A i \in Naming(old) : IsDeprecation(result.diagnostics[i])
            /\ Supplied(NewKey) # None => result.config[SlashField] = Supplied(NewKey)[1]
            /\ (NewKey \notin DOMAIN input /\ DOMAIN input \cap DeprecatedKeys = {old}
                  /\ parse("bool", input[old]) # None)
                 => result.config[SlashField] = parse("bool", input[old])[1]
       /\ Cardinality(Deprecations(result.diagnostics)) = Cardinality(DeprecatedKeys \cap DOMAIN input)

\* C6 witness: a returned call on {old_key: false, new_key: true}, where the
\* field took the new key's value and the old key got its deprecation
\* diagnostic
C6_Witness ==
  /\ Done
  /\ \E old \in DeprecatedKeys :
       /\ DOMAIN input = {old, NewKey}
       /\ input[old] = Bool(FALSE) /\ input[NewKey] = Bool(TRUE)
       /\ result.config[SlashField] = TRUE
       /\ Len(result.diagnostics) = 1 /\ result.diagnostics[1].property_name = old

\* the input keys that no step of resolve_config reads
Unrecognized == DOMAIN input \ (KnownKeys \cup {"deno"} \cup DeprecatedKeys)
\* key k, supplied with a well-typed value, resolved to that value
ResolvedToSupplied(k) ==
  IF \E i \in DOMAIN Categories : Categories[i].key = k /\ Categories[i].op = "get_nullable_value"
    THEN ResolvedOf(k) = Supplied(k)
    ELSE ResolvedOf(k) = Supplied(k)[1]

\* C7: the unknown-key diagnostics are the last diagnostics of the result,
\* exactly one per input key that is neither a known key, the preset flag nor
\* a deprecated key, and none names a recognized key; every recognized key
\* supplied with a well-typed value resolves to that value.
C7_UnknownKeys ==
  Done =>
    LET d == result.diagnostics
        U == Unknowns(d)
    IN /\ {d[i].property_name : i \in U} = Unrecognized
       /\ Cardinality(U) = Cardinality(Unrecognized)
       /\ U = (Len(d) - Cardinality(U) + 1) .. Len(d)
       /\ \A k \in DOMAIN input \cap KnownKeys : Supplied(k) # None => ResolvedToSupplied(k)

\* C7 witness: a returned call on a map with two unrecognized keys and one
\* recognized key, which resolved to a value other than its default
C7_Witness ==
  /\ Done
  /\ Unrecognized = UnknownKeys
  /\ Cardinality(Unknowns(result.diagnostics)) = 2
  /\ \E k \in DOMAIN input \cap KnownKeys :
       /\ Supplied(k) # None
       /\ ResolvedToSupplied(k)
       /\ k = "arrowFunction.bracePosition" /\ ResolvedOf(k) = "Maintain"

\* the known input keys whose value does not parse to the key's type
Malformed == {k \in DOMAIN input \cap KnownKeys : Supplied(k) = None}
\* the default that key k falls back to: the baseline of a category, the
\* default expression of a field evaluated on the resolved locals
FallbackOf(k) ==
  IF k \in CategoryKeys
    THEN LET c == Categories[CHOOSE i \in DOMAIN Categories : Categories[i].key = k]
         IN IF c.op = "get_nullable_value" THEN None ELSE c.dflt
    ELSE DefaultOf(Fields[CHOOSE i \in DOMAIN Fields : Fields[i].key = k].dflt, locals, global_config)

\* C8: every known key supplied with a malformed value resolves to its
\* default (the baseline, or the value of the category or sibling it cascades
\* from), which without the preset flag is what the map without that key
\* resolves to; the
\* result has exactly one diagnostic naming the key, a type-mismatch one, so
\* the key is not reported as unknown.
C8_TypeMismatchFallback ==
  Done =>
    \A k \in Malformed :
      /\ ResolvedOf(k) = FallbackOf(k)
      /\ "deno" \notin DOMAIN input =>
           result.config = build([j \in DOMAIN input \ {k} |-> input[j]], global_config)
      /\ Cardinality(Naming(k)) = 1
      /\ \A i \in Naming(k) : IsTypeMismatch(result.diagnostics[i])

\* C8 witness: a returned call in which a malformed leaf fell back to the
\* value of its category, which the same map sets to other than the baseline
C8_Witness ==
  /\ Done
  /\ \E k \in Malformed \ CategoryKeys :
       LET f == Fields[CHOOSE i \in DOMAIN Fields : Fields[i].key = k]
       IN /\ f.dflt[1] = "local"
          /\ CategoryOf(f) \in DOMAIN input
          /\ Supplied(CategoryOf(f)) # None
          /\ ResolvedOf(k) = ResolvedOf(CategoryOf(f))
          /\ ResolvedOf(k) # FallbackOf(CategoryOf(f))
          /\ Len(result.diagnostics) = 1

\* the preset flag has been extracted from the map
FlagExtracted == "deno" \in DOMAIN input /\ "deno" \notin DOMAIN config

\* C9 as stated: the deprecation redirects run before the preset flag is
\* extracted, so once the flag is out of the map no deprecated key is in it.
C9_RedirectsBeforePreset == FlagExtracted => DOMAIN config \cap DeprecatedKeys = {}

\* C9 amended: the preset flag is extracted and the preset merged first, then
\* the deprecation redirects run, then the cascading extraction (categories,
\* then fields), then the unknown-key report, then the result is assembled.
C9_PipelineOrder ==
  /\ "deno" \in DOMAIN config => config = input /\ diagnostics = <<>> /\ locals = <<>>
  /\ (FlagExtracted /\ input["deno"] = Bool(TRUE) /\ DOMAIN config \cap DeprecatedKeys # {})
       => DOMAIN DenoConfig \subseteq DOMAIN config
  /\ Deprecations(diagnostics) # {} => "deno" \notin DOMAIN config
  /\ DOMAIN config \cap DeprecatedKeys # {} => locals = <<>>
  /\ locals = <<>> => resolved_config = <<>>
  /\ resolved_config = <<>> => Unknowns(diagnostics) = {} /\ Unrecognized \subseteq DOMAIN config
  /\ result # NoResult => config = <<>> /\ result = [config |-> resolved_config, diagnostics |-> diagnostics]

\* C9 witness: the flag has been extracted and the preset merged while a
\* deprecated key is still in the map and has no diagnostic yet
C9_Witness ==
  /\ FlagExtracted /\ input["deno"] = Bool(TRUE)
  /\ DOMAIN DenoConfig \subseteq DOMAIN config
  /\ DOMAIN config \cap DeprecatedKeys # {}
  /\ diagnostics = <<>>

\* the place of key k in the resolution order: the lets of lines 49-65, then
\* the fields of lines 67-336
ResolutionIndex(k) ==
  IF k \in CategoryKeys
    THEN CHOOSE i \in DOMAIN Categories : Categories[i].key = k
    ELSE Len(Categories) + (CHOOSE i \in DOMAIN Fields : Fields[i].key = k)

\* C10 as stated: all deprecation diagnostics first, then the type-mismatch
\* diagnostics, then the unknown-key diagnostics; no type-mismatch diagnostic
\* precedes a deprecation diagnostic.
C10_DeprecationsFirst ==
  Done =>
    LET d == result.diagnostics
    IN /\ \A i \in Deprecations(d), j \in TypeMismatches(d) \cup Unknowns(d) : i < j
       /\ \A i \in TypeMismatches(d), j \in Unknowns(d) : i < j

\* C10 amended: the type-mismatch diagnostic of a malformed preset flag, if
\* any, comes first; then the deprecation diagnostics (jsxElement before
\* jsx); then the other type-mismatch diagnostics in resolution order; then
\* the unknown-key diagnostics. No type-mismatch diagnostic other than the
\* flag's precedes a deprecation diagnostic.
C10_DiagnosticsOrder ==
  Done =>
    LET d == result.diagnostics
        M == TypeMismatches(d) \ Naming("deno")
    IN /\ Naming("deno") \subseteq {1} \cap TypeMismatches(d)
       /\ \A i \in Naming("deno"), j \in Deprecations(d) : i < j
       /\ \A i \in Deprecations(d), j \in M \cup Unknowns(d) : i < j
       /\ \A i, j \in Deprecations(d) :
            (d[i].property_name = "jsxElement.spaceBeforeSelfClosingTagSlash"
              /\ d[j].property_name = "jsx.spaceBeforeSelfClosingTagSlash") => i < j
       /\ \A i, j \in M : i < j => ResolutionIndex(d[i].property_name) < ResolutionIndex(d[j].property_name)
       /\ \A i \in M, j \in Unknowns(d) : i < j
       /\ DOMAIN d = TypeMismatches(d) \cup Deprecations(d) \cup Unknowns(d)

\* C10 witness: a returned call whose diagnostics are the flag's type
\* mismatch, a deprecation, the type mismatch of the forwarded value and an
\* unknown key, in that order
C10_Witness ==
  /\ Done
  /\ Len(result.diagnostics) = 4
  /\ Naming("deno") = {1}
  /\ Deprecations(result.diagnostics) = {2}
  /\ Naming(NewKey) = {3} /\ IsTypeMismatch(result.diagnostics[3])
  /\ Unknowns(result.diagnostics) = {4}

\* the two redirects of lines 36-47 applied to a map, first `first` then `second`
RedirectsInOrder(cfg, diags, first, second) ==
  LET r == handle_renamed_config_property(cfg, first, NewKey, diags)
  IN handle_renamed_config_property(r.config, second, NewKey, r.diagnostics)
\* the field that lines 49-336 resolve from the outcome r of the redirects
SlashFieldAfter(r) ==
  LET d == category_locals(r.config, r.diagnostics)
  IN configuration_literal(d.config, d.diagnostics, d.locals, global_config).values[SlashField]
JsxElementOld == "jsxElement.spaceBeforeSelfClosingTagSlash"
JsxOld == "jsx.spaceBeforeSelfClosingTagSlash"
\* the redirects in the order of the code, and in the other order
CodeOrder(cfg, diags) == RedirectsInOrder(cfg, diags, JsxElementOld, JsxOld)
OtherOrder(cfg, diags) == RedirectsInOrder(cfg, diags, JsxOld, JsxElementOld)
Range(seq) == {seq[i] : i \in DOMAIN seq}
\* both old keys are in the map with different values and the new key is not
OldKeysCompete(cfg) ==
  /\ DeprecatedKeys \subseteq DOMAIN cfg
  /\ NewKey \notin DOMAIN cfg
  /\ cfg[JsxElementOld] # cfg[JsxOld]

\* C11 as stated: on the map the redirects receive, the two redirects in
\* either order give the same map, the same resolved field and the same set
\* of diagnostics.
C11_RedirectsCommute ==
  pc = "rename_jsx_element" =>
    LET a == CodeOrder(config, diagnostics)
        b == OtherOrder(config, diagnostics)
    IN /\ a.config = b.config
       /\ SlashFieldAfter(a) = SlashFieldAfter(b)
       /\ Range(a.diagnostics) = Range(b.diagnostics)

\* C11 amended: the two redirects share the new key. In either order they
\* give the same set of diagnostics and maps over the same keys; they give
\* the same map and the same field unless both old keys are present with
\* different values and the new key is absent, and then the redirect that
\* runs first decides: in the code's order the new key takes the value of
\* jsxElement.spaceBeforeSelfClosingTagSlash. The call itself runs them in
\* the code's order.
C11_RedirectsCommuteUnlessCompeting ==
  /\ pc = "rename_jsx_element" =>
       LET a == CodeOrder(config, diagnostics)
           b == OtherOrder(config, diagnostics)
       IN /\ Range(a.diagnostics) = Range(b.diagnostics)
          /\ DOMAIN a.config = DOMAIN b.config
          /\ ~OldKeysCompete(config) => a.config = b.config /\ SlashFieldAfter(a) = SlashFieldAfter(b)
          /\ OldKeysCompete(config) =>
               /\ a.config[NewKey] = config[JsxElementOld]
               /\ b.config[NewKey] = config[JsxOld]
  /\ pc \in {"categories", "done"} =>
       LET e == expand_preset(input, <<>>)
           a == CodeOrder(e.config, e.diagnostics)
       IN /\ pc = "categories" => config = a.config /\ diagnostics = a.diagnostics
          /\ pc = "done" => result.config[SlashField] = SlashFieldAfter(a)

\* C11 witness: a returned call on a map with both old keys, with different
\* values, and without the new key: the field has the value of the
\* jsxElement key, where the other order gives the value of the jsx key
C11_Witness ==
  /\ Done
  /\ OldKeysCompete(input)
  /\ input[JsxElementOld].kind = "Bool" /\ input[JsxOld].kind = "Bool"
  /\ result.config[SlashField] = input[JsxElementOld].val
  /\ SlashFieldAfter(OtherOrder(input, <<>>)) = input[JsxOld].val
  /\ result.config[SlashField] # input[JsxOld].val

Returned == pc = "returned"
\* the least element of a non-empty set of numbers, or `otherwise`
FirstOf(indices, otherwise) == IF indices = {} THEN otherwise ELSE CHOOSE i \in indices : \A j \in indices : i <= j
\* where the scan starts: after the shebang line if the text has one
AfterShebang(text) ==
  IF starts_with(text, <<"#", "!">>) THEN FirstOf({i \in 3 .. Len(text) : text[i] = "\n"}, Len(text) + 1) ELSE 1
\* a comment of the sort `second` ("/" or "*") starts at q
CommentAt(text, q, second) == q + 1 <= Len(text) /\ text[q] = "/" /\ text[q + 1] = second
\* the comment that starts at q begins with ignore, after characters of `blanks` only
BeginsWith(text, q, ignore, blanks) ==
  \E k \in q + 2 .. Len(text) + 1 :
    /\ \A j \in q + 2 .. k - 1 : text[j] \in blanks
    /\ k + Len(ignore) - 1 <= Len(text)
    /\ SubSeq(text, k, k + Len(ignore) - 1) = ignore
\* the comment that starts at q is an ignore comment
IsIgnoreComment(text, q, ignore) ==
  \/ CommentAt(text, q, "/") /\ BeginsWith(text, q, ignore, {" "})
  \/ CommentAt(text, q, "*") /\ BeginsWith(text, q, ignore, Whitespace)
\* the index after the comment that starts at q: a line comment runs to the
\* end of its line, a block comment through its first closing mark, either
\* to the end of the text if that is missing
AfterComment(text, q) ==
  IF CommentAt(text, q, "/")
    THEN FirstOf({i \in q + 2 .. Len(text) : text[i] = "\n"}, Len(text) + 1)
    ELSE FirstOf({i + 2 : i \in {j \in q + 2 .. Len(text) - 1 : text[j] = "*" /\ text[j + 1] = "/"}}, Len(text) + 1)
\* the indices reached from p over whitespace and whole comments that are
\* not ignore comments
RECURSIVE RunFrom(_, _, _)
RunFrom(text, ignore, p) ==
  {p} \cup
    (IF p > Len(text) THEN {}
     ELSE IF text[p] \in Whitespace THEN RunFrom(text, ignore, p + 1)
     ELSE IF (CommentAt(text, p, "/") \/ CommentAt(text, p, "*")) /\ ~IsIgnoreComment(text, p, ignore)
       THEN RunFrom(text, ignore, AfterComment(text, p))
     ELSE {})
LeadingRun(text, ignore) == RunFrom(text, ignore, AfterShebang(text))

EndsWith(text, suffix) ==
  Len(text) >= Len(suffix) /\ SubSeq(text, Len(text) - Len(suffix) + 1, Len(text)) = suffix
\* the leaves <node>.preferSingleLine
PreferSingleLineLeaves == {i \in DOMAIN Fields : EndsWith(Fields[i].key, ".preferSingleLine")}
ImportExportLeaves == {"importDeclaration.preferSingleLine", "exportDeclaration.preferSingleLine"}
\* key k was not in the input and the preset put it in the map
FromPreset(k) ==
  /\ "deno" \in DOMAIN input /\ input["deno"] = Bool(TRUE)
  /\ k \in DOMAIN DenoConfig \ DOMAIN input

\* C14: a preferSingleLine leaf that takes its default (it is absent or
\* malformed) resolves to V when the category key preferSingleLine is present
\* with the valid value V; when the category key is absent or malformed the
\* import and export leaves resolve to true and every other leaf to false. A
\* malformed category key gets exactly one diagnostic, a type-mismatch one.
C14_PreferSingleLineAsymmetry ==
  Done =>
    /\ \A i \in PreferSingleLineLeaves :
         LET k == Fields[i].key
             v == result.config[Fields[i].field]
         IN (Supplied(k) = None /\ ~FromPreset(k)) =>
              IF Supplied("preferSingleLine") # None
                THEN v = Supplied("preferSingleLine")[1]
                ELSE v = (k \in ImportExportLeaves)
    /\ ("preferSingleLine" \in DOMAIN input /\ Supplied("preferSingleLine") = None) =>
         /\ Cardinality(Naming("preferSingleLine")) = 1
         /\ \A j \in Naming("preferSingleLine") : IsTypeMismatch(result.diagnostics[j])
    /\ ImportExportLeaves \subseteq {Fields[i].key : i \in PreferSingleLineLeaves}
    /\ Cardinality(PreferSingleLineLeaves) > Cardinality(ImportExportLeaves)

\* C14 witness: a returned call on a map whose only entry is a malformed
\* preferSingleLine: import and export resolved to true, another leaf to false
C14_Witness ==
  /\ Done
  /\ DOMAIN input = {"preferSingleLine"}
  /\ Supplied("preferSingleLine") = None
  /\ Len(result.diagnostics) = 1
  /\ result.config["import_declaration_prefer_single_line"] = TRUE
  /\ result.config["export_declaration_prefer_single_line"] = TRUE
  /\ result.config["array_expression_prefer_single_line"] = FALSE

\* the input has the preset flag with a value that is not a boolean
MalformedFlag == "deno" \in DOMAIN input /\ parse("bool", input["deno"]) = None
\* the input without the preset flag
WithoutFlag == [k \in DOMAIN input \ {"deno"} |-> input[k]]

\* C15: a preset flag with a non-boolean value is consumed and gets exactly
\* one diagnostic, a type-mismatch one, which is the first; the preset is not
\* merged: the map goes on as the input without the flag, every field
\* resolves as it does for that map, and the flag is not reported as unknown.
C15_MalformedPresetFlag ==
  MalformedFlag =>
    /\ pc = "rename_jsx_element" =>
         /\ config = WithoutFlag
         /\ diagnostics = <<ConfigurationDiagnostic("deno", ParseErrorMessage)>>
    /\ pc # "expand_preset" => "deno" \notin DOMAIN config
    /\ Done =>
         /\ Naming("deno") = {1}
         /\ IsTypeMismatch(result.diagnostics[1])
         /\ result.config = build(WithoutFlag, global_config)

\* C15 witness: a returned call on a map with a malformed flag and nothing
\* else set: the line width is the baseline's, not the preset's
C15_Witness ==
  /\ Done
  /\ MalformedFlag
  /\ "lineWidth" \notin DOMAIN input
  /\ result.config["line_width"] = 120
  /\ result.config["line_width"] # DenoConfig["lineWidth"].val
  /\ Len(result.diagnostics) = 1

\* old is the only deprecated key of the input, its value is not a boolean
\* and the input does not have the new key
ForwardsMalformed(old) ==
  /\ DOMAIN input \cap (DeprecatedKeys \cup {NewKey}) = {old}
  /\ parse("bool", input[old]) = None

\* C16: a deprecated key with a malformed value and no new key is forwarded
\* as it is: after the redirects the new key holds the value; the result has
\* one diagnostic naming the old key, a deprecation, then one naming the new
\* key, a type mismatch, and none other naming either; the field resolves to
\* its default true.
C16_MalformedForwarded ==
  \A old \in DeprecatedKeys :
    ForwardsMalformed(old) =>
      /\ pc = "categories" =>
           old \notin DOMAIN config /\ NewKey \in DOMAIN config /\ config[NewKey] = input[old]
      /\ Done =>
           /\ \E i, j \in DOMAIN result.diagnostics :
                /\ Naming(old) = {i} /\ IsDeprecation(result.diagnostics[i])
                /\ Naming(NewKey) = {j} /\ IsTypeMismatch(result.diagnostics[j])
                /\ i < j
           /\ result.config[SlashField] = TRUE
           /\ DOMAIN input = {old} => Len(result.diagnostics) = 2

\* C16 witness: a returned call on a map whose only entry is
\* jsx.spaceBeforeSelfClosingTagSlash with a number
C16_Witness ==
  /\ Done
  /\ DOMAIN input = {JsxOld}
  /\ ForwardsMalformed(JsxOld)
  /\ Len(result.diagnostics) = 2
  /\ result.diagnostics[1] = ConfigurationDiagnostic(JsxOld, RenamedMessage(NewKey))
  /\ result.diagnostics[2] = ConfigurationDiagnostic(NewKey, ParseErrorMessage)
  /\ result.config[SlashField] = TRUE

\* the scan runs into the end of the text: the leading run ends in a lone
\* "/", in a block comment that is not closed or in a line comment without a
\* line feed after it, or the text is only a shebang line
RunsIntoEnd(text, ignore) ==
  \/ starts_with(text, <<"#", "!">>) /\ AfterShebang(text) = Len(text) + 1
  \/ \E q \in LeadingRun(text, ignore) :
       \/ q = Len(text) /\ text[q] = "/"
       \/ /\ CommentAt(text, q, "*") /\ ~IsIgnoreComment(text, q, ignore)
          /\ ~\E j \in q + 2 .. Len(text) - 1 : text[j] = "*" /\ text[j + 1] = "/"
       \/ /\ CommentAt(text, q, "/") /\ ~IsIgnoreComment(text, q, ignore)
          /\ ~\E j \in q + 2 .. Len(text) : text[j] = "\n"

\* C17: every call of file_text_has_ignore_comment returns. Each iteration of
\* the main loop and each iteration of the search for the end of a block
\* comment consumes at least one character, the iterator never moves back
\* nor past the end of the text, and a scan that runs into the end of the
\* text returns false.
C17_Terminates ==
  /\ <>Returned
  /\ [][LoopIteration => iterator' > iterator]_vars
  /\ [][(FindCommentEnd /\ pc' = "find_comment_end") => iterator' > iterator]_vars
  /\ [][iterator' >= iterator]_vars
  /\ [](iterator \in 1 .. Len(file_text) + 1)
  /\ []((Returned /\ RunsIntoEnd(file_text, ignore_text)) => has_ignore_comment = Some(FALSE))

\* C17 witness: the call returned false at the end of a text that ends in a
\* block comment that is not closed
C17_Witness ==
  /\ Returned
  /\ has_ignore_comment = Some(FALSE)
  /\ iterator = Len(file_text) + 1
  /\ \E q \in LeadingRun(file_text, ignore_text) :
       /\ CommentAt(file_text, q, "*")
       /\ ~\E j \in q + 2 .. Len(file_text) - 1 : file_text[j] = "*" /\ file_text[j + 1] = "/"
====
